---- MODULE Spec2Model ----
(***************************************************************************)
(* Reconciliation of ASEA (legacy) VPC resources with the LZA target       *)
(* configuration: VpcResources (asea-resources/vpc-resources.ts).          *)
(*                                                                         *)
(* A run is the VpcResources constructor: for every VPC in scope it finds  *)
(* the nested stack holding the VPC, then runs the mergers in source       *)
(* order.  Every method called from the constructor's loop body is one     *)
(* action; pc is the constructor's position.                               *)
(***************************************************************************)
EXTENDS Integers, Sequences, FiniteSets, TLC

VARIABLES
  props,              \* this.props: phase, nestedStacksInfo, networkFirewall (read only)
  vpcsInScope,        \* this.scope.vpcsInScope (target specification, read only)
  externalParameters, \* values this.scope.getExternalResourceParameter can return
  template,           \* live resources of the included templates: logicalId -> properties
  pc,                 \* position of the constructor
  vpcIndex,           \* index of vpcInScope in the constructor's loop
  vpcResourceInfo,    \* what getVpcResourceByTag returned for vpcInScope
  subnets,            \* the map returned by createSubnets for the current VPC
  tgwAttachmentMap,   \* the map returned by createTransitGatewayAttachments
  ssmParameters,      \* this.ssmParameters
  stringParameters,   \* the StringParameter constructs created so far
  aseaResources,      \* the calls of this.scope.addAseaResource, in order
  logs,               \* the calls of this.scope.addLogs, in order
  logGroups,          \* the LogGroup constructs created so far
  error,              \* the exception that ended the run, or NoError
  run,                \* 1: first run, 2: run on the records the first run left
  firstRun,           \* outputs of the first run, kept for comparison
  lakeProps,              \* props of the Security Lake handlers: operation, dryRun, configuration
  delegatedAdministrators, \* AWS Organizations: service principal -> delegated admin accounts
  registerHandler,        \* RegisterOrganizationAdmin.handler: position, currentAdmin, action, result
  deregisterHandler,      \* DeregisterOrganizationAdmin.handler: position, currentAdmin, result
  floating,               \* calls made without await whose request is not sent yet
  securityLakeRequests,   \* the requests the SecurityLakeClient sent, in order, with their outcome
  event,                  \* the custom resource event of the policy Lambda handler
  organization,           \* AWS Organizations: policies and the targets they are attached to
  policyHandler,          \* the policy Lambda handler: position, policy id, targets, result
  detachCalls,            \* targets whose detach call was made and whose request is not sent yet
  policyRequests          \* the requests the policy Lambda handler sent, in order, with their outcome

vars == <<props, vpcsInScope, externalParameters, template, pc, vpcIndex,
          vpcResourceInfo,
          subnets, tgwAttachmentMap, ssmParameters, stringParameters, aseaResources,
          logs, logGroups, error, run, firstRun,
          lakeProps, delegatedAdministrators, registerHandler, deregisterHandler,
          floating, securityLakeRequests,
          event, organization, policyHandler, detachCalls, policyRequests>>

\* the state of the policy Lambda handler, which nothing else touches
policyLambda == <<event, organization, policyHandler, detachCalls, policyRequests>>

\* the state of VpcResources, which the Security Lake handlers never touch
vpcState == <<props, vpcsInScope, externalParameters, template, pc, vpcIndex,
                  vpcResourceInfo, subnets, tgwAttachmentMap, ssmParameters, stringParameters,
                  aseaResources, logs, logGroups, error, run, firstRun>>

\* the state of the Security Lake executor, which VpcResources never touches
securityLake == <<lakeProps, delegatedAdministrators, registerHandler, deregisterHandler,
                  floating, securityLakeRequests>>

(***************************************************************************)
(* Values                                                                  *)
(***************************************************************************)
\* JavaScript undefined, for string-valued fields
Undefined == "undefined"
NoError == "none"
\* what reading a property of undefined throws
TypeError == "TypeError"

ASEA_PHASE_NUMBER == 1

\* const enum RESOURCE_TYPE
RESOURCE_TYPE ==
  [VPC |-> "AWS::EC2::VPC",
   SUBNET |-> "AWS::EC2::Subnet",
   CIDR_BLOCK |-> "AWS::EC2::VPCCidrBlock",
   INTERNET_GATEWAY |-> "AWS::EC2::InternetGateway",
   NAT_GATEWAY |-> "AWS::EC2::NatGateway",
   VPN_GATEWAY |-> "AWS::EC2::VPNGateway",
   SECURITY_GROUP |-> "AWS::EC2::SecurityGroup",
   SECURITY_GROUP_EGRESS |-> "AWS::EC2::SecurityGroupEgress",
   SECURITY_GROUP_INGRESS |-> "AWS::EC2::SecurityGroupIngress",
   ROUTE_TABLE |-> "AWS::EC2::RouteTable",
   TGW_ATTACHMENT |-> "AWS::EC2::TransitGatewayAttachment",
   TGW_ASSOCIATION |-> "AWS::EC2::TransitGatewayRouteTableAssociation",
   TGW_PROPAGATION |-> "AWS::EC2::TransitGatewayRouteTablePropagation",
   NETWORK_FIREWALL |-> "AWS::NetworkFirewall::Firewall",
   NETWORK_FIREWALL_POLICY |-> "AWS::NetworkFirewall::FirewallPolicy",
   NETWORK_FIREWALL_RULE_GROUP |-> "AWS::NetworkFirewall::RuleGroup",
   NETWORK_FIREWALL_LOGGING |-> "AWS::NetworkFirewall::LoggingConfiguration",
   VPC_ENDPOINT |-> "AWS::EC2::VPCEndpoint"]

(***************************************************************************)
(* Sequences                                                               *)
(***************************************************************************)
RECURSIVE FoldLeft(_, _, _)
FoldLeft(Op(_, _), acc, s) ==
  IF s = <<>> THEN acc ELSE FoldLeft(Op, Op(acc, Head(s)), Tail(s))

\* Array.prototype.filter
FilterSeq(s, Test(_)) == SelectSeq(s, Test)

\* Array.prototype.findIndex, 1-based; 0 when no element passes
RECURSIVE FindFrom(_, _, _)
FindFrom(s, Test(_), i) ==
  IF i > Len(s) THEN 0 ELSE IF Test(s[i]) THEN i ELSE FindFrom(s, Test, i + 1)

FindIndex(s, Test(_)) == FindFrom(s, Test, 1)

Includes(s, x) == \E i \in DOMAIN s : s[i] = x

Range(s) == {s[i] : i \in DOMAIN s}

(***************************************************************************)
(* Reference Exporter                                                      *)
(***************************************************************************)
\* VpcResources.addSsmParameter
AddSsmParameterTo(queue, parameterName, stringValue) ==
  Append(queue, [parameterName |-> parameterName, stringValue |-> stringValue])

\* a lookup five positions back
DependsOnFiveEarlier(index) == index - 5

\* the key parameterMap.get is called with for the parameter at position index
DependsOnIndex(index) == index - (index % 5)

\* VpcResources.createSsmParameters: the constructs created for a queue in scope
\* `scope`; dependsOn holds the positions given to parameter.node.addDependency.
\* parameterMap holds the positions 1..index when position index looks one up.
CreatedParameters(scope, queue) ==
  [index \in 1..Len(queue) |->
     [scope |-> scope,
      index |-> index,
      parameterName |-> queue[index].parameterName,
      stringValue |-> queue[index].stringValue,
      dependsOn |-> IF index > 5 THEN {DependsOnIndex(index)} ELSE {}]]

\* the first position whose lookup in parameterMap yields undefined (0: none)
FirstUndefinedDependency(queue) ==
  FindIndex([index \in 1..Len(queue) |-> index],
            LAMBDA index : index > 5 /\ DependsOnIndex(index) \notin 1..index)

ConfigurationValidationFailed == "Configuration validation failed at runtime."

(***************************************************************************)
(* Legacy records (AseaStackInfo.resources) and the matchers               *)
(***************************************************************************)
\* a property of a record or configuration item; undefined when absent
Has(item, key) == key \in DOMAIN item

StrProp(item, key) == IF Has(item, key) THEN item[key] ELSE Undefined

ListProp(item, key) == IF Has(item, key) THEN item[key] ELSE <<>>

\* AseaResource.filterResourcesByType
filterResourcesByType(resources, resourceType) ==
  FilterSeq(resources, LAMBDA cfnResource : cfnResource.resourceType = resourceType)

\* Tags.find(tag => tag.Key === 'Name' && tag.Value === name) is truthy
HasNameTag(cfnResource, name) ==
  \E i \in DOMAIN cfnResource.Properties.Tags :
    /\ cfnResource.Properties.Tags[i].Key = "Name"
    /\ cfnResource.Properties.Tags[i].Value = name

\* what Array.prototype.find returns when no record passes
NoResource ==
  [resourceType |-> Undefined, logicalResourceId |-> Undefined,
   physicalResourceId |-> Undefined, Properties |-> <<>>]

\* Array.prototype.find over records
Find(resources, Test(_)) ==
  LET k == FindIndex(resources, Test) IN IF k = 0 THEN NoResource ELSE resources[k]

\* the Ref of a property holding { Ref: logicalId }
RefProp(item, key) == IF Has(item, key) THEN item[key].Ref ELSE Undefined

\* AseaResource.findResourceByTag: the first record whose Name tag is name
findResourceByTag(resources, name) ==
  Find(resources,
       LAMBDA cfnResource : Has(cfnResource.Properties, "Tags") /\ HasNameTag(cfnResource, name))

\* AseaResource.findResourceByName: the first record whose property is name
findResourceByName(resources, propertyName, name) ==
  Find(resources, LAMBDA cfnResource : StrProp(cfnResource.Properties, propertyName) = name)

\* AseaResource.filterResourcesByRef: the records whose property refers to logicalId
filterResourcesByRef(resources, propertyName, logicalId) ==
  FilterSeq(resources, LAMBDA cfnResource : RefProp(cfnResource.Properties, propertyName) = logicalId)

NoVpcResource == [stackInfo |-> 0, resource |-> NoResource, error |-> NoError]

\* the callback of vpcResources.find stops at the first record it is truthy for,
\* and throws at a record that has no Tags to call find on
VpcFindStops(cfnResource, vpcName) ==
  \/ ~Has(cfnResource.Properties, "Tags")
  \/ HasNameTag(cfnResource, vpcName)

\* VpcResources.getVpcResourceByTag, from nested stack i on: the nested stack
\* (its index in nestedStacksInfo) and the VPC record found
RECURSIVE GetVpcResourceFrom(_, _, _)
GetVpcResourceFrom(nestedStacksInfo, vpcName, i) ==
  IF i > Len(nestedStacksInfo) THEN NoVpcResource
  ELSE LET resources == nestedStacksInfo[i].resources
           k == FindIndex(resources,
                          LAMBDA r : r.resourceType = RESOURCE_TYPE.VPC /\ VpcFindStops(r, vpcName))
       IN IF k = 0 THEN GetVpcResourceFrom(nestedStacksInfo, vpcName, i + 1)
          ELSE IF ~Has(resources[k].Properties, "Tags")
               THEN [NoVpcResource EXCEPT !.error = TypeError]
               ELSE [stackInfo |-> i, resource |-> resources[k], error |-> NoError]

getVpcResourceByTag(nestedStacksInfo, vpcName) ==
  GetVpcResourceFrom(nestedStacksInfo, vpcName, 1)

\* a search for the subnet in every nested stack of the account and region
getSubnetResourceInAnyStack(subnetName, nestedStackInfo) ==
  findResourceByTag(
    filterResourcesByType(
      FoldLeft(LAMBDA acc, stack : acc \o stack.resources, <<>>, props.nestedStacksInfo), RESOURCE_TYPE.SUBNET),
    subnetName)

\* VpcResources.getSubnetResourceByTag
getSubnetResourceByTag(subnetName, nestedStackInfo) ==
  findResourceByTag(filterResourcesByType(nestedStackInfo.resources, RESOURCE_TYPE.SUBNET), subnetName)

\* scope.getSsmPath(resourceType, names)
getSsmPath(resourceType, names) == <<resourceType>> \o names

\* scope.getExternalResourceParameter(name): the value exported earlier, or undefined
getExternalResourceParameter(parameters, name) ==
  IF name \in DOMAIN parameters THEN parameters[name] ELSE Undefined

\* the live resources CfnInclude builds from the nested stacks' templates
IncludedTemplate(nestedStacksInfo) ==
  LET all == UNION {Range(nestedStacksInfo[i].resources) : i \in DOMAIN nestedStacksInfo}
  IN [logicalId \in {r.logicalResourceId : r \in all} |->
        (CHOOSE r \in all : r.logicalResourceId = logicalId).Properties]

(***************************************************************************)
(* The state a merger works on: s.template, s.ssmParameters, s.aseaResources, *)
(* s.logs, s.logGroups, s.subnets, s.tgwAttachmentMap and s.error (an       *)
(* exception thrown).                                                      *)
(***************************************************************************)
\* this.addSsmParameter / this.ssmParameters.push
addSsmParameter(s, parameterName, stringValue) ==
  [s EXCEPT !.ssmParameters = AddSsmParameterTo(@, parameterName, stringValue)]

\* this.scope.addAseaResource(type, identifier)
addAseaResource(s, type, identifier) ==
  [s EXCEPT !.aseaResources = Append(@, [resourceType |-> type, resourceIdentifier |-> identifier])]

\* the end of the "Item Excluded" messages
InAccountRegion ==
  " in Account/Region " \o props.stackInfo.accountKey \o "/" \o props.stackInfo.region

\* this.scope.addLogs(level, message)
addLogs(s, level, message) ==
  [s EXCEPT !.logs = Append(@, [level |-> level, message |-> message])]

\* an assignment that leaves the resource with the assigned property only
SetPropertyAlone(s, logicalId, key, value) ==
  [s EXCEPT !.template[logicalId] = (key :> value)]

\* an assignment to a property of the live resource logicalId
SetProperty(s, logicalId, key, value) ==
  [s EXCEPT !.template[logicalId] = (key :> value) @@ @]

Throw(s, exception) == [s EXCEPT !.error = exception]

\* the first record of a type in a stack: resources.filter(...)?.[0]
FirstOfType(vpcStackInfo, resourceType) ==
  Find(vpcStackInfo.resources, LAMBDA cfnResource : cfnResource.resourceType = resourceType)

\* VpcResources.setupInternetGateway
setupInternetGateway(s, vpcStackInfo, vpcConfig) ==
  LET internetGatewayInfo == FirstOfType(vpcStackInfo, RESOURCE_TYPE.INTERNET_GATEWAY)
  IN IF vpcConfig.internetGateway /\ internetGatewayInfo # NoResource
     THEN addAseaResource(
            addSsmParameter(s, getSsmPath("IGW", <<vpcConfig.name>>),
                            internetGatewayInfo.logicalResourceId),
            "EC2_IGW", vpcConfig.name)
     ELSE s

\* VpcResources.setupVpnGateway
setupVpnGateway(s, vpcStackInfo, vpcConfig) ==
  LET virtualPrivateGatewayInfo == FirstOfType(vpcStackInfo, RESOURCE_TYPE.VPN_GATEWAY)
  IN IF Has(vpcConfig, "virtualPrivateGateway") /\ virtualPrivateGatewayInfo # NoResource
     THEN addAseaResource(
            addSsmParameter(
              SetProperty(s, virtualPrivateGatewayInfo.logicalResourceId, "AmazonSideAsn",
                          vpcConfig.virtualPrivateGateway.asn),
              getSsmPath("VPN_GW", <<vpcConfig.name>>),
              virtualPrivateGatewayInfo.logicalResourceId),
            "EC2_VPN_GW", vpcConfig.name)
     ELSE s

\* the VPC's attributes with the last declared CIDR as the primary one
SetVpcAttributesLastCidr(s, vpcLogicalId, vpcInScope) ==
  SetProperty(
    SetProperty(
      SetProperty(
        SetProperty(s, vpcLogicalId, "CidrBlock", vpcInScope.cidrs[Len(vpcInScope.cidrs)]),
        vpcLogicalId, "EnableDnsHostnames", vpcInScope.enableDnsHostnames),
      vpcLogicalId, "EnableDnsSupport", vpcInScope.enableDnsSupport),
    vpcLogicalId, "InstanceTenancy", vpcInScope.instanceTenancy)

\* constructor, lines 119-122: the VPC's attributes are set from the configuration
SetVpcAttributes(s, vpcLogicalId, vpcInScope) ==
  SetProperty(
    SetProperty(
      SetProperty(
        SetProperty(s, vpcLogicalId, "CidrBlock", vpcInScope.cidrs[1]),
        vpcLogicalId, "EnableDnsHostnames", vpcInScope.enableDnsHostnames),
      vpcLogicalId, "EnableDnsSupport", vpcInScope.enableDnsSupport),
    vpcLogicalId, "InstanceTenancy", vpcInScope.instanceTenancy)

\* Array.prototype.join(',') as the template literal prints a list
RECURSIVE Join(_)
Join(list) ==
  IF list = <<>> THEN ""
  ELSE IF Len(list) = 1 THEN list[1] ELSE list[1] \o "," \o Join(Tail(list))

\* constructor, lines 123-145: additional CIDR blocks
AdditionalCidrs(s, vpcStackInfo, vpcInScope) ==
  IF Len(vpcInScope.cidrs) > 1
  THEN LET additionalCidrResources == filterResourcesByType(vpcStackInfo.resources, RESOURCE_TYPE.CIDR_BLOCK)
           existingAdditionalCidrBlocks ==
             [i \in DOMAIN additionalCidrResources |-> additionalCidrResources[i].Properties.CidrBlock]
           One(acc, cidr) ==
             IF Find(additionalCidrResources,
                     LAMBDA cfnResource : cfnResource.Properties.CidrBlock = cidr) = NoResource
             THEN addLogs(acc, "INFO", "Item Excluded: " \o vpcInScope.name \o " CIDR" \o InAccountRegion)
             ELSE addAseaResource(acc, "EC2_VPC_CIDR", vpcInScope.name \o "-" \o cidr)
           removedAseaCidrs ==
             FilterSeq(Tail(vpcInScope.cidrs),
                       LAMBDA cidr : ~Includes(existingAdditionalCidrBlocks, cidr))
       IN addLogs(FoldLeft(One, s, Tail(vpcInScope.cidrs)), "INFO",
                  "Removed Additional CIDR created by ASEA are " \o Join(removedAseaCidrs))
  ELSE s

\* VpcResources.createSubnets
createSubnets(s, vpcItem, vpcStackInfo) ==
  LET One(acc, subnetItem) ==
        LET subnetResource == getSubnetResourceByTag(subnetItem.name, vpcStackInfo)
            subnet == subnetResource.logicalResourceId
        IN IF subnetResource = NoResource THEN acc
           ELSE [addAseaResource(
                   addSsmParameter(
                     SetProperty(
                       SetProperty(
                         SetProperty(acc, subnet, "CidrBlock", subnetItem.ipv4CidrBlock),
                         subnet, "AvailabilityZone", vpcItem.region \o subnetItem.availabilityZone),
                       subnet, "MapPublicIpOnLaunch", subnetItem.mapPublicIpOnLaunch),
                     getSsmPath("SUBNET", <<vpcItem.name, subnetItem.name>>), subnet),
                   "EC2_SUBNET", vpcItem.name \o "/" \o subnetItem.name)
                 EXCEPT !.subnets = (subnetItem.name :> subnet) @@ @]
  IN FoldLeft(One, [s EXCEPT !.subnets = <<>>], ListProp(vpcItem, "subnets"))

\* VpcResources.createNatGateways
createNatGateways(s, vpcStackInfo, vpcItem) ==
  LET natGatewayResources == filterResourcesByType(vpcStackInfo.resources, RESOURCE_TYPE.NAT_GATEWAY)
      One(acc, natGatewayItem) ==
        LET natGatewayResource == findResourceByTag(natGatewayResources, natGatewayItem.name)
            natGateway == natGatewayResource.logicalResourceId
            \* a CfnSubnet's ref is never falsy: the lookup below runs only for
            \* a subnet that is in the map and has no ref
            ref == acc.subnets[natGatewayItem.subnet]
            subnetId ==
              IF ref # Undefined THEN ref
              ELSE getExternalResourceParameter(
                     externalParameters,
                     getSsmPath("SUBNET", <<vpcItem.name, acc.template[natGateway].SubnetId>>))
            updated == IF subnetId # Undefined
                       THEN SetProperty(acc, natGateway, "SubnetId", subnetId)
                       ELSE acc
        IN IF acc.error # NoError \/ natGatewayResource = NoResource THEN acc
           ELSE IF natGatewayItem.subnet \notin DOMAIN acc.subnets THEN Throw(acc, TypeError)
           ELSE addAseaResource(
                  addSsmParameter(updated,
                                  getSsmPath("NAT_GW", <<vpcItem.name, natGatewayItem.name>>),
                                  natGateway),
                  "NAT_GATEWAY", vpcItem.name \o "/" \o natGatewayItem.name)
  IN IF Has(vpcItem, "natGateways") /\ vpcItem.natGateways = <<>> /\ natGatewayResources # <<>>
     THEN addLogs(s, "WARN", "NAT Gateways are removed from configuration.")
     ELSE FoldLeft(One, s, ListProp(vpcItem, "natGateways"))

(***************************************************************************)
(* Security groups                                                         *)
(***************************************************************************)
\* JavaScript undefined, for number-valued fields (from?: number, to?: number)
UndefinedPort == -2

NumProp(item, key) == IF Has(item, key) THEN item[key] ELSE UndefinedPort

\* truthiness of a string and of a number
TruthyStr(x) == x # Undefined /\ x # ""

TruthyNum(n) == n # UndefinedPort /\ n # 0

TCP_PROTOCOLS_PORT ==
  [RDP |-> 3389, SSH |-> 22, HTTP |-> 80, HTTPS |-> 443, MSSQL |-> 1433,
   REDSHIFT |-> 5439, POSTGRESQL |-> 5432]
   @@ ("MYSQL/AURORA" :> 3306) @@ ("ORACLE-RDS" :> 1521)

\* cdk.aws_ec2.Protocol
ProtocolTCP == "tcp"
ProtocolUDP == "udp"
ProtocolALL == "-1"

\* the source strings the model uses, as ip-num parses them
Ipv4Cidrs == {"10.0.0.0/16", "10.2.0.0/16", "10.1.1.0/24", "10.1.2.0/24"}
Ipv6Cidrs == {"fd00::/8"}

\* VpcResources.isValidIpv4Cidr / isValidIpv6Cidr
isValidIpv4Cidr(cidr) == cidr \in Ipv4Cidrs
isValidIpv6Cidr(cidr) == cidr \in Ipv6Cidrs

\* VpcResources.checkCidrFromSource
checkCidrFromSource(source) ==
  IF isValidIpv6Cidr(source) THEN "cidrIpv6"
  ELSE IF isValidIpv4Cidr(source) THEN "cidrIpv4" ELSE Undefined

\* getter-utils: getVpcConfig, getSubnetConfig
getVpcConfig(vpcResources, vpcName) ==
  vpcResources[FindIndex(vpcResources, LAMBDA vpc : vpc.name = vpcName)]

getSubnetConfig(vpcItem, subnetName) ==
  vpcItem.subnets[FindIndex(vpcItem.subnets, LAMBDA subnet : subnet.name = subnetName)]

\* a SecurityGroupRuleInfo
RuleInfo(ruleProps, source, sourceValue, sourceType, securityGroupRuleItem) ==
  [protocol |-> ruleProps.protocol, type |-> ruleProps.type,
   from |-> ruleProps.from, to |-> ruleProps.to,
   source |-> source, sourceValue |-> sourceValue, sourceType |-> sourceType,
   description |-> StrProp(securityGroupRuleItem, "description")]

\* processSecurityGroupSources: a source is a string ([value]), a subnet source
\* ([vpc, subnets]) or a security group source ([securityGroups])
processSecurityGroupSources(securityGroupRuleItem, ruleProps, securityGroupsMap) ==
  LET One(rules, sourceItem) ==
        LET strings == IF Has(sourceItem, "value") /\ sourceItem.value # ""
                       THEN <<RuleInfo(ruleProps, sourceItem.value, sourceItem.value,
                                       Undefined, securityGroupRuleItem)>>
                       ELSE <<>>
            ofSubnets ==
              IF Has(sourceItem, "vpc") /\ Has(sourceItem, "subnets")
              THEN LET sourceVpcItem == getVpcConfig(vpcsInScope, sourceItem.vpc)
                   IN [i \in DOMAIN sourceItem.subnets |->
                         RuleInfo(ruleProps, sourceVpcItem.name \o "/" \o sourceItem.subnets[i],
                                  getSubnetConfig(sourceVpcItem, sourceItem.subnets[i]).ipv4CidrBlock,
                                  "subnet", securityGroupRuleItem)]
              ELSE <<>>
            ofGroups ==
              IF Has(sourceItem, "securityGroups")
              THEN LET mapped == FilterSeq(sourceItem.securityGroups,
                                           LAMBDA securityGroup : securityGroup \in DOMAIN securityGroupsMap)
                   IN [i \in DOMAIN mapped |->
                         RuleInfo(ruleProps, mapped[i], securityGroupsMap[mapped[i]],
                                  "sg", securityGroupRuleItem)]
              ELSE <<>>
        IN rules \o strings \o ofSubnets \o ofGroups
  IN FoldLeft(One, <<>>, securityGroupRuleItem.sources)

\* processTcpSources / processUdpSources
processPortSources(securityGroupRuleItem, ports, protocol, securityGroupsMap) ==
  LET One(rules, port) ==
        rules \o processSecurityGroupSources(
                   securityGroupRuleItem,
                   [protocol |-> protocol, type |-> Undefined, from |-> port, to |-> port],
                   securityGroupsMap)
  IN FoldLeft(One, <<>>, ports)

processTcpSources(securityGroupRuleItem, securityGroupsMap) ==
  processPortSources(securityGroupRuleItem, ListProp(securityGroupRuleItem, "tcpPorts"),
                     ProtocolTCP, securityGroupsMap)

processUdpSources(securityGroupRuleItem, securityGroupsMap) ==
  processPortSources(securityGroupRuleItem, ListProp(securityGroupRuleItem, "udpPorts"),
                     ProtocolUDP, securityGroupsMap)

processTypeSources(securityGroupRuleItem, securityGroupsMap) ==
  LET PortOf(ruleType) ==
        IF ruleType \in DOMAIN TCP_PROTOCOLS_PORT THEN TCP_PROTOCOLS_PORT[ruleType]
        ELSE UndefinedPort
      One(rules, ruleType) ==
        rules \o processSecurityGroupSources(
                   securityGroupRuleItem,
                   IF ruleType = "ALL"
                   THEN [protocol |-> ProtocolALL, type |-> ruleType,
                         from |-> UndefinedPort, to |-> UndefinedPort]
                   ELSE [protocol |-> ProtocolTCP, type |-> ruleType,
                         from |-> PortOf(ruleType), to |-> PortOf(ruleType)],
                   securityGroupsMap)
  IN FoldLeft(One, <<>>, ListProp(securityGroupRuleItem, "types"))

\* the rules of a list of rule items, as the two loops at lines 469-481 push them
ProcessRuleItems(ruleItems, securityGroupsMap) ==
  LET One(rules, ruleItem) ==
        rules \o processTcpSources(ruleItem, securityGroupsMap)
              \o processUdpSources(ruleItem, securityGroupsMap)
              \o processTypeSources(ruleItem, securityGroupsMap)
  IN FoldLeft(One, <<>>, ruleItems)

\* the comparison of lines 486-537 without the source for a rule of type ALL
IngressRuleMatchesAllWithoutSource(existingIngressRule, configIngressRule) ==
  LET Properties == existingIngressRule.Properties
      ipProtocol == /\ TruthyStr(StrProp(Properties, "IpProtocol"))
                    /\ StrProp(Properties, "IpProtocol") = configIngressRule.protocol
      fromPort == IF configIngressRule.type = "ALL"
                  THEN NumProp(Properties, "FromPort") = configIngressRule.from
                  ELSE /\ TruthyNum(NumProp(Properties, "FromPort"))
                       /\ NumProp(Properties, "FromPort") = configIngressRule.from
      toPort == IF configIngressRule.type = "ALL"
                THEN NumProp(Properties, "ToPort") = configIngressRule.to
                ELSE /\ TruthyNum(NumProp(Properties, "ToPort"))
                     /\ NumProp(Properties, "ToPort") = configIngressRule.to
      cidrIp == /\ TruthyStr(StrProp(Properties, "CidrIp"))
                /\ StrProp(Properties, "CidrIp") = configIngressRule.sourceValue
      sourceSecurityGroupId ==
        /\ Has(Properties, "SourceSecurityGroupId")
        /\ Properties.SourceSecurityGroupId.Ref = configIngressRule.sourceValue
  IN ipProtocol /\ fromPort /\ toPort
       /\ (configIngressRule.type = "ALL" \/ cidrIp \/ sourceSecurityGroupId)

\* lines 486-537: one legacy ingress rule agrees with a configured rule
IngressRuleMatches(existingIngressRule, configIngressRule) ==
  LET Properties == existingIngressRule.Properties
      ipProtocol == /\ TruthyStr(StrProp(Properties, "IpProtocol"))
                    /\ StrProp(Properties, "IpProtocol") = configIngressRule.protocol
      fromPort == IF configIngressRule.type = "ALL"
                  THEN NumProp(Properties, "FromPort") = configIngressRule.from
                  ELSE /\ TruthyNum(NumProp(Properties, "FromPort"))
                       /\ NumProp(Properties, "FromPort") = configIngressRule.from
      toPort == IF configIngressRule.type = "ALL"
                THEN NumProp(Properties, "ToPort") = configIngressRule.to
                ELSE /\ TruthyNum(NumProp(Properties, "ToPort"))
                     /\ NumProp(Properties, "ToPort") = configIngressRule.to
      cidrIp == /\ TruthyStr(StrProp(Properties, "CidrIp"))
                /\ StrProp(Properties, "CidrIp") = configIngressRule.sourceValue
      sourceSecurityGroupId ==
        /\ Has(Properties, "SourceSecurityGroupId")
        /\ Properties.SourceSecurityGroupId.Ref = configIngressRule.sourceValue
  IN ipProtocol /\ fromPort /\ toPort /\ (cidrIp \/ sourceSecurityGroupId)

\* existingIngressRuleEntry of lines 485-537
ExistingIngressRuleEntry(ingressRules, configIngressRule) ==
  \E i \in DOMAIN ingressRules : IngressRuleMatches(ingressRules[i], configIngressRule)

\* the predicate of egressRules.find, lines 633-651
EgressRuleMatches(existingEgressRule, configEgressRule) ==
  LET Properties == existingEgressRule.Properties
  IN /\ \/ /\ TruthyStr(StrProp(Properties, "IpProtocol"))
           /\ StrProp(Properties, "IpProtocol") = configEgressRule.protocol
        \/ TRUE
     /\ \/ /\ TruthyNum(NumProp(Properties, "FromPort"))
           /\ NumProp(Properties, "FromPort") = configEgressRule.from
        \/ TRUE
     /\ \/ /\ TruthyNum(NumProp(Properties, "ToPort"))
           /\ NumProp(Properties, "ToPort") = configEgressRule.to
        \/ TRUE
     /\ \/ /\ TruthyStr(StrProp(Properties, "CidrIp"))
           /\ StrProp(Properties, "CidrIp") = configEgressRule.sourceValue
        \/ TRUE
     /\ \/ /\ Has(Properties, "SourceSecurityGroupId")
           /\ Properties.SourceSecurityGroupId.Ref = configEgressRule.sourceValue
        \/ TRUE

\* a port as the template literal of a resource identifier prints it
PortText(n) == IF n = UndefinedPort THEN Undefined ELSE ToString(n)

\* the identifier of a rule given to addAseaResource, lines 544 and 656
RuleIdentifier(vpcItem, securityGroupItem, direction, rule) ==
  vpcItem.name \o "/" \o securityGroupItem.name \o "/" \o direction \o "/" \o rule.source
    \o "-" \o PortText(rule.from) \o "-" \o PortText(rule.to) \o "-" \o rule.protocol

\* lines 561-619: the IngressProperty objects pushed for a rule that is new
NewIngressProperties(configIngressRule, securityGroupPhysicalIdMap) ==
  LET base == [ipProtocol |-> configIngressRule.protocol,
               description |-> configIngressRule.description]
      ports == [fromPort |-> configIngressRule.from, toPort |-> configIngressRule.to]
      sourceCidrType == checkCidrFromSource(configIngressRule.source)
  IN (IF configIngressRule.type # "ALL" THEN <<base @@ ports>> ELSE <<>>)
     \o (IF configIngressRule.sourceType = "sg"
         THEN <<base @@ [sourceSecurityGroupId |->
                           securityGroupPhysicalIdMap[configIngressRule.source]]>>
         ELSE <<>>)
     \o (IF configIngressRule.sourceType = "pl"
         THEN <<base @@ [sourcePrefixListId |-> configIngressRule.source]>>
         ELSE <<>>)
     \o (IF configIngressRule.sourceType = "subnet"
         THEN <<base @@ [cidrIp |-> configIngressRule.sourceValue] @@ ports>>
         ELSE <<>>)
     \o (IF sourceCidrType = "cidrIpv4"
         THEN <<base @@ [cidrIp |-> configIngressRule.source] @@ ports>>
         ELSE <<>>)
     \o (IF sourceCidrType = "cidrIpv6"
         THEN <<base @@ [cidrIpv6 |-> configIngressRule.source] @@ ports>>
         ELSE <<>>)

\* lines 432-452: the security groups found by GroupName are exported and registered;
\* s.securityGroupsMap and s.securityGroupPhysicalIdMap are the two maps
RegisterSecurityGroups(s, vpcItem, vpcStackInfo) ==
  LET One(acc, securityGroupItem) ==
        LET existingSecurityGroup ==
              findResourceByName(vpcStackInfo.resources, "GroupName", securityGroupItem.name)
        IN IF existingSecurityGroup = NoResource THEN acc
           ELSE [addAseaResource(
                   addSsmParameter(acc,
                     getSsmPath("SECURITY_GROUP", <<vpcItem.name, securityGroupItem.name>>),
                     existingSecurityGroup.logicalResourceId),
                   "EC2_SECURITY_GROUP", vpcItem.name \o "/" \o securityGroupItem.name)
                 EXCEPT !.securityGroupsMap =
                          (securityGroupItem.name :> existingSecurityGroup.logicalResourceId) @@ @,
                        !.securityGroupPhysicalIdMap =
                          (securityGroupItem.name :> existingSecurityGroup.physicalResourceId) @@ @]
  IN FoldLeft(One, s @@ [securityGroupsMap |-> <<>>, securityGroupPhysicalIdMap |-> <<>>],
              ListProp(vpcItem, "securityGroups"))

\* lines 483-658: the body of the loop over outboundRules, for the ingress rules
\* of the group and the egress rules pushed so far
MergeRulesOnce(s, vpcItem, securityGroupItem, logicalId, ingressRules, egressRules,
               securityGroupIngressRules, securityGroupEgressRules) ==
  LET Ingress(acc, configIngressRule) ==
        IF ExistingIngressRuleEntry(ingressRules, configIngressRule)
        THEN [acc EXCEPT !.s = addAseaResource(@, "EC2_SECURITY_GROUP_INGRESS",
                                 RuleIdentifier(vpcItem, securityGroupItem, "ingress", configIngressRule))]
        ELSE [acc EXCEPT !.toBeUpdated =
                @ \o NewIngressProperties(configIngressRule, s.securityGroupPhysicalIdMap)]
      classified == FoldLeft(Ingress, [s |-> s, toBeUpdated |-> <<>>], securityGroupIngressRules)
      existingIngressRulesToBeUpdated == classified.toBeUpdated
      written == IF existingIngressRulesToBeUpdated # <<>>
                 THEN SetProperty(classified.s, logicalId, "SecurityGroupIngress",
                                  existingIngressRulesToBeUpdated)
                 ELSE classified.s
      Egress(acc, configEgressRule) ==
        IF \E i \in DOMAIN egressRules : EgressRuleMatches(egressRules[i], configEgressRule)
        THEN addAseaResource(acc, "EC2_SECURITY_GROUP_EGRESS",
                             RuleIdentifier(vpcItem, securityGroupItem, "egress", configEgressRule))
        ELSE acc
  IN FoldLeft(Egress, written, securityGroupEgressRules)

\* lines 454-660: the rules of every security group found
MergeSecurityGroupRules(s, vpcItem, vpcStackInfo) ==
  LET One(acc, securityGroupItem) ==
        IF securityGroupItem.name \notin DOMAIN s.securityGroupsMap THEN acc
        ELSE LET logicalId == s.securityGroupsMap[securityGroupItem.name]
                 egressRules ==
                   filterResourcesByRef(
                     filterResourcesByType(vpcStackInfo.resources, RESOURCE_TYPE.SECURITY_GROUP_EGRESS),
                     "GroupId", logicalId)
                 ingressRules ==
                   filterResourcesByRef(
                     filterResourcesByType(vpcStackInfo.resources, RESOURCE_TYPE.SECURITY_GROUP_INGRESS),
                     "GroupId", logicalId)
                 securityGroupIngressRules ==
                   ProcessRuleItems(securityGroupItem.inboundRules, s.securityGroupsMap)
                 Outbound(acc2, k) ==
                   MergeRulesOnce(acc2, vpcItem, securityGroupItem, logicalId,
                                  ingressRules, egressRules, securityGroupIngressRules,
                                  ProcessRuleItems(SubSeq(securityGroupItem.outboundRules, 1, k),
                                                   s.securityGroupsMap))
             IN FoldLeft(Outbound, acc,
                         [k \in 1..Len(securityGroupItem.outboundRules) |-> k])
  IN FoldLeft(One, s, ListProp(vpcItem, "securityGroups"))

\* the fields createSecurityGroups keeps in local variables
DropLocals(s) ==
  [key \in DOMAIN s \ {"securityGroupsMap", "securityGroupPhysicalIdMap"} |-> s[key]]

\* VpcResources.createSecurityGroups
createSecurityGroups(s, vpcItem, vpcStackInfo) ==
  DropLocals(MergeSecurityGroupRules(RegisterSecurityGroups(s, vpcItem, vpcStackInfo),
                                     vpcItem, vpcStackInfo))

(***************************************************************************)
(* Transit gateway attachments, propagations and associations              *)
(***************************************************************************)
\* the subnet ids a merger collects for a list of subnet names, lines 694-702 and
\* 1064-1072: subnets[name].ref throws for a name that is not in the map
ResolveSubnetIds(s, vpcItem, subnetNames) ==
  LET One(acc, subnet) ==
        IF acc.error # NoError THEN acc
        ELSE IF subnet \notin DOMAIN s.subnets THEN [acc EXCEPT !.error = TypeError]
        ELSE LET ref == s.subnets[subnet]
                 subnetId ==
                   IF ref # Undefined THEN ref
                   ELSE getExternalResourceParameter(
                          externalParameters, getSsmPath("SUBNET", <<vpcItem.name, subnet>>))
             IN IF subnetId # Undefined THEN [acc EXCEPT !.subnetIds = Append(@, subnetId)]
                ELSE acc
  IN FoldLeft(One, [subnetIds |-> <<>>, error |-> NoError], subnetNames)

\* VpcResources.createTransitGatewayAttachments; the map returned is
\* s.tgwAttachmentMap (the constructor reads undefined as the empty map)
createTransitGatewayAttachments(s, vpcItem, vpcStackInfo) ==
  LET tgwAttachmentResources == filterResourcesByType(vpcStackInfo.resources, RESOURCE_TYPE.TGW_ATTACHMENT)
      One(acc, tgwAttachmentItem) ==
        LET tgwAttachmentResource == findResourceByTag(tgwAttachmentResources, tgwAttachmentItem.name)
            tgwAttachment == tgwAttachmentResource.logicalResourceId
            resolved == ResolveSubnetIds(acc, vpcItem, tgwAttachmentItem.subnets)
        IN IF acc.error # NoError \/ tgwAttachmentResource = NoResource THEN acc
           ELSE IF resolved.error # NoError THEN Throw(acc, resolved.error)
           ELSE [addAseaResource(
                   addSsmParameter(
                     SetProperty(acc, tgwAttachment, "SubnetIds", resolved.subnetIds),
                     getSsmPath("TGW_ATTACHMENT", <<vpcItem.name, tgwAttachmentItem.name>>),
                     tgwAttachment),
                   "TRANSIT_GATEWAY_ATTACHMENT", vpcItem.name \o "/" \o tgwAttachmentItem.name)
                 EXCEPT !.tgwAttachmentMap = (tgwAttachmentItem.name :> tgwAttachment) @@ @]
      cleared == [s EXCEPT !.tgwAttachmentMap = <<>>]
  IN IF tgwAttachmentResources = <<>> THEN cleared
     ELSE IF Has(vpcItem, "transitGatewayAttachments") /\ vpcItem.transitGatewayAttachments = <<>>
     THEN addLogs(cleared, "WARN",
                  "TGW Attachment is removed from VPC \"" \o vpcItem.name \o "\" configuration")
     ELSE FoldLeft(One, cleared, ListProp(vpcItem, "transitGatewayAttachments"))

\* VpcResources.getTgwRouteTableId: the physical id of the transit gateway route
\* table of that name in the phase 0 stack of this account and region
getTgwRouteTableId(routeTableName) ==
  IF ~Has(props, "templateMap") THEN Undefined
  ELSE LET k == FindIndex(props.templateMap,
                          LAMBDA stackInfo : /\ stackInfo.phase = 0
                                             /\ stackInfo.accountKey = props.stackInfo.accountKey
                                             /\ stackInfo.region = props.stackInfo.region)
           tgwRouteTableResources ==
             filterResourcesByType(IF k = 0 THEN <<>> ELSE props.templateMap[k].resources,
                                   "AWS::EC2::TransitGatewayRouteTable")
       IN findResourceByTag(tgwRouteTableResources, routeTableName).physicalResourceId

\* the find of lines 749-755 and 790-796: tgwAttachMap[name] is undefined for an
\* attachment that is not in the map
TgwRouteTableRecord(records, tgwAttachMap, tgwAttachmentItem, routeTableItem) ==
  Find(records,
       LAMBDA r : /\ r.Properties.TransitGatewayAttachmentId.Ref =
                       StrProp(tgwAttachMap, tgwAttachmentItem.name)
                  /\ StrProp(r.Properties, "TransitGatewayRouteTableId") =
                       getTgwRouteTableId(routeTableItem))

\* createTransitGatewayRouteTablePropagation and ...Association differ in the
\* record type, the list of the attachment they walk and the type registered
TgwRouteTableEntries(s, vpcItem, vpcStackInfo, recordType, listKey, aseaType) ==
  LET records == filterResourcesByType(vpcStackInfo.resources, recordType)
      Create(acc, tgwAttachmentItem) ==
        LET One(acc2, routeTableItem) ==
              IF TgwRouteTableRecord(records, s.tgwAttachmentMap, tgwAttachmentItem,
                                     routeTableItem) = NoResource
              THEN acc2
              ELSE addAseaResource(acc2, aseaType,
                     tgwAttachmentItem.transitGateway.account \o "/"
                       \o tgwAttachmentItem.transitGateway.name \o "/"
                       \o tgwAttachmentItem.name \o "/" \o routeTableItem)
        IN FoldLeft(One, acc, ListProp(tgwAttachmentItem, listKey))
  IN IF records = <<>> THEN s
     ELSE IF Has(vpcItem, "transitGatewayAttachments") /\ vpcItem.transitGatewayAttachments = <<>>
     THEN addLogs(s, "WARN",
                  "TGW Attachment is removed from VPC \"" \o vpcItem.name \o "\" configuration")
     ELSE FoldLeft(Create, s, ListProp(vpcItem, "transitGatewayAttachments"))

\* VpcResources.createTransitGatewayRouteTablePropagation
createTransitGatewayRouteTablePropagation(s, vpcItem, vpcStackInfo) ==
  TgwRouteTableEntries(s, vpcItem, vpcStackInfo, RESOURCE_TYPE.TGW_PROPAGATION,
                       "routeTablePropagations", "TRANSIT_GATEWAY_PROPAGATION")

\* VpcResources.createTransitGatewayRouteTableAssociation
createTransitGatewayRouteTableAssociation(s, vpcItem, vpcStackInfo) ==
  TgwRouteTableEntries(s, vpcItem, vpcStackInfo, RESOURCE_TYPE.TGW_ASSOCIATION,
                       "routeTableAssociations", "TRANSIT_GATEWAY_ASSOCIATION")

(***************************************************************************)
(* Network firewall                                                        *)
(***************************************************************************)
\* props.networkConfig.centralNetworkServices?.networkFirewall, a list of it
NetworkFirewallList(key) ==
  IF Has(props, "networkFirewall") THEN props.networkFirewall[key] ELSE <<>>

\* VpcResources.createNetworkFirewallRuleGroups; the map returned is s.ruleGroupMap
createNetworkFirewallRuleGroups(s, vpcStackInfo) ==
  LET firewallRuleGroupResources ==
        filterResourcesByType(vpcStackInfo.resources, RESOURCE_TYPE.NETWORK_FIREWALL_RULE_GROUP)
      One(acc, firewallRuleGroupResource) ==
        LET aseaManagedRuleGroupName == firewallRuleGroupResource.Properties.RuleGroupName
            k == FindIndex(NetworkFirewallList("rules"),
                           LAMBDA group : group.name = aseaManagedRuleGroupName)
            ruleItem == NetworkFirewallList("rules")[k]
            rule == firewallRuleGroupResource.logicalResourceId
        IN IF k = 0
           THEN addLogs(acc, "WARN",
                  "No Firewall Rule Group found in configuration and firewall policy present in resource mapping")
           ELSE [addAseaResource(
                   addSsmParameter(
                     SetProperty(acc, rule, "RuleGroup", ruleItem.ruleGroup),
                     getSsmPath("NFW_RULE_GROUP", <<ruleItem.name>>), rule),
                   "NFW_RULE_GROUP", ruleItem.name)
                 EXCEPT !.ruleGroupMap = (ruleItem.name :> rule) @@ @]
  IN FoldLeft(One, s @@ [ruleGroupMap |-> <<>>], firewallRuleGroupResources)

\* VpcResources.getRuleGroupReferences: a group that is not in the map is referred
\* to by the name of its parameter
getRuleGroupReferences(ruleGroupReferences, ruleGroupMap) ==
  [i \in DOMAIN ruleGroupReferences |->
     [resourceArn |-> IF ruleGroupReferences[i].name \in DOMAIN ruleGroupMap
                      THEN <<ruleGroupMap[ruleGroupReferences[i].name]>>
                      ELSE getSsmPath("NFW_RULE_GROUP", <<ruleGroupReferences[i].name>>),
      priority |-> ruleGroupReferences[i].priority]]

\* VpcResources.createNetworkFirewallPolicy; what it returns is s.firewallPolicy
\* (absent: undefined)
createNetworkFirewallPolicy(s, vpcStackInfo) ==
  LET firewallResources == filterResourcesByType(vpcStackInfo.resources, RESOURCE_TYPE.NETWORK_FIREWALL_POLICY)
      aseaManagedPolicy == firewallResources[1]
      aseaManagedPolicyName == aseaManagedPolicy.Properties.FirewallPolicyName
      k == FindIndex(NetworkFirewallList("policies"),
                     LAMBDA policy : policy.name = aseaManagedPolicyName)
      policyItem == NetworkFirewallList("policies")[k]
      policy == aseaManagedPolicy.logicalResourceId
  IN IF firewallResources = <<>> THEN s
     ELSE IF k = 0
     THEN addLogs(s, "WARN",
            "No Firewall Policy found in configuration and firewall policy present in resource mapping")
     ELSE addAseaResource(
            addSsmParameter(
              SetProperty(s, policy, "FirewallPolicy",
                [statefulRuleGroupReferences |->
                   getRuleGroupReferences(ListProp(policyItem.firewallPolicy, "statefulRuleGroups"),
                                          s.ruleGroupMap)]),
              getSsmPath("NFW_POLICY", <<policyItem.name>>), policy),
            "NFW_POLICY", policyItem.name)
          @@ [firewallPolicy |-> [name |-> policyItem.name, arn |-> policy]]

\* VpcResources.addFirewallLoggingConfiguration
addFirewallLoggingConfiguration(s, vpcStackInfo, firewallItem) ==
  LET loggingConfigurationResource ==
        filterResourcesByType(vpcStackInfo.resources, RESOURCE_TYPE.NETWORK_FIREWALL_LOGGING)
      loggingConfiguration == loggingConfigurationResource[1].logicalResourceId
      One(acc, logItem) ==
        IF logItem.destination = "cloud-watch-logs"
        THEN [acc EXCEPT !.logGroups = Append(@, firewallItem.name \o logItem.type \o "LogGroup"),
                         !.destinationConfigs =
                            Append(@, [logDestinationType |-> "CloudWatchLogs", logType |-> logItem.type])]
        ELSE IF logItem.destination = "s3"
        THEN [acc EXCEPT !.destinationConfigs =
                            Append(@, [logDestinationType |-> "S3", logType |-> logItem.type])]
        ELSE acc
      built == FoldLeft(One, [logGroups |-> s.logGroups, destinationConfigs |-> <<>>],
                        ListProp(firewallItem, "loggingConfiguration"))
  IN \* the array filterResourcesByType returns is never falsy
     IF loggingConfigurationResource = <<>> THEN Throw(s, TypeError)
     ELSE SetProperty([s EXCEPT !.logGroups = built.logGroups],
                      loggingConfiguration, "LoggingConfiguration",
                      [logDestinationConfigs |-> built.destinationConfigs])

\* the message of the error thrown at lines 1080-1082
PolicyNotFound(firewallPolicy) ==
  "Firewall is managed externally and no SSM Parameter found for policy \"" \o firewallPolicy \o "\""

\* lines 1073-1078: the policy of this run when its name is the firewall's, else
\* the parameter exported earlier
ResolvePolicyArn(s, firewallItem) ==
  LET policyArn == IF Has(s, "firewallPolicy") /\ firewallItem.firewallPolicy = s.firewallPolicy.name
                   THEN s.firewallPolicy.arn
                   ELSE Undefined
  IN IF TruthyStr(policyArn) THEN policyArn
     ELSE getExternalResourceParameter(
            externalParameters, getSsmPath("NFW_POLICY", <<firewallItem.firewallPolicy>>))

\* VpcResources.createNetworkFirewall
createNetworkFirewall(s, vpcItem, vpcStackInfo, vpcId) ==
  LET firewallsConfig ==
        FilterSeq(NetworkFirewallList("firewalls"),
                  LAMBDA firewallConfig : firewallConfig.vpc = vpcItem.name)
      firewallResources == filterResourcesByType(vpcStackInfo.resources, RESOURCE_TYPE.NETWORK_FIREWALL)
      One(acc, firewallItem) ==
        LET firewallResource == findResourceByName(firewallResources, "FirewallName", firewallItem.name)
            firewall == firewallResource.logicalResourceId
            resolved == ResolveSubnetIds(acc, vpcItem, firewallItem.subnets)
            policyArn == ResolvePolicyArn(acc, firewallItem)
            included ==
              SetProperty(
                SetProperty(
                  SetProperty(acc, firewall, "FirewallPolicyArn", policyArn),
                  firewall, "SubnetMappings", resolved.subnetIds),
                firewall, "VpcId", vpcId)
            logged == addFirewallLoggingConfiguration(included, vpcStackInfo, firewallItem)
        IN IF acc.error # NoError \/ firewallResource = NoResource THEN acc
           ELSE IF resolved.error # NoError THEN Throw(acc, resolved.error)
           ELSE IF ~TruthyStr(policyArn) THEN Throw(acc, PolicyNotFound(firewallItem.firewallPolicy))
           ELSE IF logged.error # NoError THEN logged
           ELSE addAseaResource(
                  addSsmParameter(logged, getSsmPath("NFW", <<firewallItem.vpc, firewallItem.name>>),
                                  firewall),
                  "NFW", firewallItem.name)
  IN IF firewallResources = <<>> THEN s
     ELSE IF firewallsConfig = <<>>
     THEN addLogs(s, "WARN",
                  "No Firewall found in configuration and firewall present in resource mapping")
     ELSE FoldLeft(One, s, firewallsConfig)

\* VpcResources.createNetworkFirewallResources
createNetworkFirewallResources(s, vpcItem, vpcStackInfo, vpcId) ==
  LET done == createNetworkFirewall(
                createNetworkFirewallPolicy(createNetworkFirewallRuleGroups(s, vpcStackInfo),
                                            vpcStackInfo),
                vpcItem, vpcStackInfo, vpcId)
  IN [key \in DOMAIN done \ {"ruleGroupMap", "firewallPolicy"} |-> done[key]]

(***************************************************************************)
(* Gateway endpoints                                                       *)
(***************************************************************************)
\* the route table ids collected for a service ('s3' or 'dynamodb'), lines
\* 1154-1184: the exported id of every route table with a route to the service
EndpointRouteTables(vpcItem, service) ==
  LET One(ids, routeTableItem) ==
        LET routeTableId ==
              getExternalResourceParameter(
                externalParameters, getSsmPath("ROUTE_TABLE", <<vpcItem.name, routeTableItem.name>>))
        IN IF ~TruthyStr(routeTableId) THEN ids
           ELSE IF /\ \E i \in DOMAIN ListProp(routeTableItem, "routes") :
                         routeTableItem.routes[i].target = service
                   /\ ~Includes(ids, routeTableId)
           THEN Append(ids, routeTableId)
           ELSE ids
  IN FoldLeft(One, <<>>, ListProp(vpcItem, "routeTables"))

\* Array.prototype.push of every element of more
PushAll(list, more) == list \o more

\* Array.prototype.push of the elements of more that list does not include
RECURSIVE PushMissing(_, _)
PushMissing(list, more) ==
  IF more = <<>> THEN list
  ELSE PushMissing(IF Includes(list, Head(more)) THEN list ELSE Append(list, Head(more)),
                   Tail(more))

\* Array.prototype.at(-1)
LastOf(list) == list[Len(list)]

\* VpcResources.gatewayEndpoints
gatewayEndpoints(s, vpcItem, vpcStackInfo) ==
  LET s3EndpointRouteTables == EndpointRouteTables(vpcItem, "s3")
      dynamodbEndpointRouteTables == EndpointRouteTables(vpcItem, "dynamodb")
      gatewayEndpointResources == filterResourcesByType(vpcStackInfo.resources, RESOURCE_TYPE.VPC_ENDPOINT)
      One(acc, endpointItem) ==
        LET gatewayEndpointResource ==
              Find(gatewayEndpointResources,
                   LAMBDA cfnResource :
                     LastOf(cfnResource.Properties.ServiceName.FnJoin[2]) = "." \o endpointItem.service)
            endpoint == gatewayEndpointResource.logicalResourceId
            collected == IF endpointItem.service = "s3" THEN s3EndpointRouteTables
                         ELSE dynamodbEndpointRouteTables
            \* const routeTableIds = endpoint.routeTableIds, assigned back at line
            \* 1213 whatever line 1205 assigned
            written ==
              IF ~Has(acc.template[endpoint], "RouteTableIds")
              THEN acc
              ELSE SetProperty(acc, endpoint, "RouteTableIds",
                               PushMissing(acc.template[endpoint].RouteTableIds, collected))
        IN IF gatewayEndpointResource = NoResource THEN acc
           ELSE addAseaResource(
                  addSsmParameter(written,
                                  getSsmPath("VPC_ENDPOINT", <<vpcItem.name, endpointItem.service>>),
                                  endpoint),
                  "VPC_ENDPOINT", vpcItem.name \o "/" \o endpointItem.service)
  IN IF gatewayEndpointResources = <<>> THEN s
     ELSE IF ~Has(vpcItem, "gatewayEndpoints")
     THEN addLogs(s, "WARN", "Endpoints are removed from configuration")
     ELSE FoldLeft(One, s, vpcItem.gatewayEndpoints.endpoints)

(***************************************************************************)
(* The constructor                                                         *)
(***************************************************************************)
vpcInScope == vpcsInScope[vpcIndex]

vpcStackInfo == props.nestedStacksInfo[vpcResourceInfo.stackInfo]

\* vpc.ref
vpcRef == vpcResourceInfo.resource.logicalResourceId

\* what the mergers work on, as the constructor holds it
Current ==
  [template |-> template, ssmParameters |-> ssmParameters, aseaResources |-> aseaResources,
   logs |-> logs, logGroups |-> logGroups, subnets |-> subnets,
   tgwAttachmentMap |-> tgwAttachmentMap, error |-> NoError]

read == <<props, vpcsInScope, externalParameters, run, firstRun>>

\* the constructor goes on at `next` with the state a merger left, or the
\* exception the merger threw ends it
Continue(s, next) ==
  /\ template' = s.template
  /\ ssmParameters' = s.ssmParameters
  /\ aseaResources' = s.aseaResources
  /\ logs' = s.logs
  /\ logGroups' = s.logGroups
  /\ subnets' = s.subnets
  /\ tgwAttachmentMap' = s.tgwAttachmentMap
  /\ error' = s.error
  /\ pc' = IF s.error = NoError THEN next ELSE "aborted"
  /\ UNCHANGED <<policyLambda, securityLake, read, vpcIndex, vpcResourceInfo, stringParameters>>

\* the position after the body of the loop for vpcsInScope[i]
LoopFrom(i) == IF i > Len(vpcsInScope) THEN "done" ELSE "getVpcResourceByTag"

\* lines 91-100
Constructor ==
  /\ pc = "constructor"
  /\ IF props.stackInfo.phase # ASEA_PHASE_NUMBER
     THEN /\ logs' = Append(logs, [level |-> "INFO",
                                   message |-> "No " \o RESOURCE_TYPE.VPC \o "s to handle in stack "
                                               \o props.stackInfo.stackName])
          /\ pc' = "done"
     ELSE /\ logs' = logs
          /\ pc' = LoopFrom(1)
  /\ vpcIndex' = 1
  /\ UNCHANGED <<policyLambda, securityLake, read, template, vpcResourceInfo, subnets, tgwAttachmentMap, ssmParameters,
                 stringParameters, aseaResources, logGroups, error>>

\* lines 101-115
GetVpcResourceByTag ==
  /\ pc = "getVpcResourceByTag"
  /\ LET found == getVpcResourceByTag(props.nestedStacksInfo, vpcInScope.name)
     IN /\ vpcResourceInfo' = found
        /\ error' = found.error
        /\ IF found.error # NoError
           THEN /\ pc' = "aborted"
                /\ UNCHANGED <<logs, vpcIndex>>
           ELSE IF found.resource = NoResource
           THEN /\ logs' = Append(logs, [level |-> "INFO",
                                         message |-> "Item Excluded: " \o vpcInScope.name
                                                     \o InAccountRegion])
                /\ vpcIndex' = vpcIndex + 1
                /\ pc' = LoopFrom(vpcIndex + 1)
           ELSE /\ pc' = "setupInternetGateway"
                /\ UNCHANGED <<logs, vpcIndex>>
  /\ ssmParameters' = <<>>
  /\ UNCHANGED <<policyLambda, securityLake, read, template, subnets, tgwAttachmentMap, stringParameters, aseaResources,
                 logGroups>>

SetupInternetGateway ==
  /\ pc = "setupInternetGateway"
  /\ Continue(setupInternetGateway(Current, vpcStackInfo, vpcInScope), "setupVpnGateway")

SetupVpnGateway ==
  /\ pc = "setupVpnGateway"
  /\ Continue(setupVpnGateway(Current, vpcStackInfo, vpcInScope), "setVpcAttributes")

\* lines 119-145
VpcAttributes ==
  /\ pc = "setVpcAttributes"
  /\ Continue(AdditionalCidrs(SetVpcAttributes(Current, vpcRef, vpcInScope),
                              vpcStackInfo, vpcInScope),
              "createSubnets")

\* a constructor that registers the VPC before it imports the subnets
CreateSubnetsAfterVpcEntry ==
  /\ pc = "createSubnets"
  /\ Continue(createSubnets(addAseaResource(Current, "EC2_VPC", vpcInScope.name),
                            vpcInScope, vpcStackInfo),
              "createNatGateways")

CreateSubnets ==
  /\ pc = "createSubnets"
  /\ Continue(createSubnets(Current, vpcInScope, vpcStackInfo), "createNatGateways")

CreateNatGateways ==
  /\ pc = "createNatGateways"
  /\ Continue(createNatGateways(Current, vpcStackInfo, vpcInScope), "createSecurityGroups")

CreateSecurityGroups ==
  /\ pc = "createSecurityGroups"
  /\ Continue(createSecurityGroups(Current, vpcInScope, vpcStackInfo),
              "createTransitGatewayAttachments")

CreateTransitGatewayAttachments ==
  /\ pc = "createTransitGatewayAttachments"
  /\ Continue(createTransitGatewayAttachments(Current, vpcInScope, vpcStackInfo),
              "createTransitGatewayRouteTablePropagation")

CreateTransitGatewayRouteTablePropagation ==
  /\ pc = "createTransitGatewayRouteTablePropagation"
  /\ Continue(createTransitGatewayRouteTablePropagation(Current, vpcInScope, vpcStackInfo),
              "createTransitGatewayRouteTableAssociation")

CreateTransitGatewayRouteTableAssociation ==
  /\ pc = "createTransitGatewayRouteTableAssociation"
  /\ Continue(createTransitGatewayRouteTableAssociation(Current, vpcInScope, vpcStackInfo),
              "createNetworkFirewallResources")

CreateNetworkFirewallResources ==
  /\ pc = "createNetworkFirewallResources"
  /\ Continue(createNetworkFirewallResources(Current, vpcInScope, vpcStackInfo, vpcRef),
              "gatewayEndpoints")

GatewayEndpoints ==
  /\ pc = "gatewayEndpoints"
  /\ Continue(gatewayEndpoints(Current, vpcInScope, vpcStackInfo), "addVpc")

\* lines 170-175
AddVpc ==
  /\ pc = "addVpc"
  /\ Continue(addAseaResource(
                addSsmParameter(Current, getSsmPath("VPC", <<vpcInScope.name>>), vpcRef),
                "EC2_VPC", vpcInScope.name),
              "createSsmParameters")

\* line 176 and the end of the loop body
CreateSsmParameters ==
  /\ pc = "createSsmParameters"
  /\ IF FirstUndefinedDependency(ssmParameters) = 0
     THEN /\ stringParameters' =
               stringParameters \o CreatedParameters(vpcStackInfo.logicalResourceId, ssmParameters)
          /\ logs' = logs
          /\ error' = error
          /\ vpcIndex' = vpcIndex + 1
          /\ pc' = LoopFrom(vpcIndex + 1)
     ELSE /\ stringParameters' =
               stringParameters \o
                 SubSeq(CreatedParameters(vpcStackInfo.logicalResourceId, ssmParameters),
                        1, FirstUndefinedDependency(ssmParameters))
          /\ logs' = Append(logs, [level |-> "ERROR",
                                   message |-> "Error creating SSM parameter: previous SSM parameter undefined"])
          /\ error' = ConfigurationValidationFailed
          /\ vpcIndex' = vpcIndex
          /\ pc' = "aborted"
  /\ UNCHANGED <<policyLambda, securityLake, read, template, vpcResourceInfo, subnets, tgwAttachmentMap, ssmParameters,
                 aseaResources, logGroups>>

(***************************************************************************)
(* Inputs: legacy records and target configurations                        *)
(***************************************************************************)
NameTag(name) == [Key |-> "Name", Value |-> name]

Record(resourceType, logicalId, Properties) ==
  [resourceType |-> resourceType, logicalResourceId |-> logicalId,
   physicalResourceId |-> "phys-" \o logicalId, Properties |-> Properties]

Tagged(resourceType, logicalId, name, Properties) ==
  Record(resourceType, logicalId,
         Properties @@ [Tags |-> <<NameTag(name), [Key |-> "Accelerator", Value |-> "ASEA"]>>])

VpcRecord(logicalId, name) ==
  Tagged(RESOURCE_TYPE.VPC, logicalId, name,
         [CidrBlock |-> "10.0.0.0/16", EnableDnsHostnames |-> FALSE,
          EnableDnsSupport |-> TRUE, InstanceTenancy |-> "dedicated"])

CidrBlockRecord(logicalId, vpcLogicalId, cidr) ==
  Record(RESOURCE_TYPE.CIDR_BLOCK, logicalId, [VpcId |-> [Ref |-> vpcLogicalId], CidrBlock |-> cidr])

SubnetRecord(logicalId, name, vpcLogicalId) ==
  Tagged(RESOURCE_TYPE.SUBNET, logicalId, name,
         [VpcId |-> [Ref |-> vpcLogicalId], CidrBlock |-> "10.0.1.0/24",
          AvailabilityZone |-> "us-east-1b", MapPublicIpOnLaunch |-> TRUE])

NestedStack(logicalId, resources) ==
  [logicalResourceId |-> logicalId, resources |-> resources]

StackInfo(phase) ==
  [phase |-> phase, accountKey |-> "network", region |-> "us-east-1",
   stackName |-> "ASEA-network-Phase1"]

Props(nestedStacksInfo) ==
  [stackInfo |-> StackInfo(ASEA_PHASE_NUMBER), nestedStacksInfo |-> nestedStacksInfo]

SubnetConfig(name, cidr, zone) ==
  [name |-> name, ipv4CidrBlock |-> cidr, availabilityZone |-> zone,
   mapPublicIpOnLaunch |-> FALSE]

VpcConfig(name, cidrs, more) ==
  more @@ [name |-> name, region |-> "us-east-1", cidrs |-> cidrs,
           enableDnsHostnames |-> TRUE, enableDnsSupport |-> TRUE,
           instanceTenancy |-> "default", internetGateway |-> FALSE]

Input(p, vpcs, parameters) ==
  [props |-> p, vpcsInScope |-> vpcs, externalParameters |-> parameters]

\* the sub-lists of a list, order kept
SubLists(list) ==
  {LET kept == [i \in DOMAIN list |-> i \in I]
   IN FoldLeft(LAMBDA acc, i : IF kept[i] THEN Append(acc, list[i]) ELSE acc,
               <<>>, [i \in DOMAIN list |-> i])
   : I \in SUBSET DOMAIN list}

ProdSubnetA == SubnetConfig("Prod-A", "10.1.1.0/24", "a")
ProdSubnetB == SubnetConfig("Prod-B", "10.1.2.0/24", "b")

\* networks and subnets: one or two nested stacks, a VPC name that two records
\* carry, a VPC record without tags, a subnet name that two records carry, the
\* same subnet name in two stacks
NetworkInputs ==
  LET NetworkStacks ==
        {<<>>,
         <<NestedStack("NS1", <<VpcRecord("VpcProd", "Prod")>>)>>,
         <<NestedStack("NS1", <<VpcRecord("VpcProd", "Prod")>>),
           NestedStack("NS2", <<VpcRecord("VpcDev", "Dev")>>)>>,
         <<NestedStack("NS1", <<VpcRecord("VpcDev", "Dev")>>),
           NestedStack("NS2", <<VpcRecord("VpcProd", "Prod")>>)>>,
         <<NestedStack("NS1", <<VpcRecord("VpcProd", "Prod")>>),
           NestedStack("NS2", <<VpcRecord("VpcProd2", "Prod")>>)>>,
         <<NestedStack("NS1", <<Record(RESOURCE_TYPE.VPC, "VpcBare", [CidrBlock |-> "10.9.0.0/16"]),
                                VpcRecord("VpcProd", "Prod")>>)>>,
         <<NestedStack("NS1", <<VpcRecord("VpcProd", "Prod"), VpcRecord("VpcProd2", "Prod"),
                                CidrBlockRecord("Cidr2", "VpcProd", "10.2.0.0/16")>>)>>}
      FirstStackSubnets ==
        {<<>>,
         <<SubnetRecord("SubnetA", "Prod-A", "VpcProd")>>,
         <<SubnetRecord("SubnetB", "Prod-B", "VpcProd")>>,
         <<SubnetRecord("SubnetA", "Prod-A", "VpcProd"), SubnetRecord("SubnetB", "Prod-B", "VpcProd")>>,
         <<SubnetRecord("SubnetA", "Prod-A", "VpcProd"), SubnetRecord("SubnetA2", "Prod-A", "VpcProd")>>}
      SecondStackSubnets == {<<>>, <<SubnetRecord("SubnetA3", "Prod-A", "VpcDev")>>}
      WithSubnets(stacks, first, second) ==
        [i \in DOMAIN stacks |->
           [stacks[i] EXCEPT !.resources = @ \o (IF i = 1 THEN first ELSE second)]]
      NetworkTargets ==
        {<<VpcConfig("Prod", cidrs, [subnets |-> subs])>> \o rest :
           cidrs \in {<<"10.1.0.0/16">>, <<"10.1.0.0/16", "10.2.0.0/16">>},
           subs \in {<<>>, <<ProdSubnetA>>, <<ProdSubnetA, ProdSubnetB>>},
           rest \in {<<>>, <<VpcConfig("Dev", <<"10.3.0.0/16">>, [subnets |-> <<ProdSubnetA>>])>>}}
        \cup {<<VpcConfig("Dev", <<"10.3.0.0/16">>, <<>>)>>}
  IN {Input(Props(WithSubnets(stacks, first, second)), vpcs, <<>>) :
        stacks \in NetworkStacks, first \in FirstStackSubnets,
        second \in SecondStackSubnets, vpcs \in NetworkTargets}

\* internet and VPN gateways
ProdStack(resources) ==
  <<NestedStack("NS1", <<VpcRecord("VpcProd", "Prod")>> \o resources)>>

InternetGatewayRecord == Tagged(RESOURCE_TYPE.INTERNET_GATEWAY, "Igw", "Prod_igw", <<>>)

VpnGatewayRecord ==
  Tagged(RESOURCE_TYPE.VPN_GATEWAY, "Vpn", "Prod_vpn", [Type |-> "ipsec.1", AmazonSideAsn |-> 64512])

GatewayInputs ==
  {Input(Props(ProdStack(records)),
         <<VpcConfig("Prod", <<"10.1.0.0/16">>, vpn @@ [internetGateway |-> igw])>>, <<>>) :
     records \in SubLists(<<InternetGatewayRecord, VpnGatewayRecord>>),
     igw \in BOOLEAN,
     vpn \in {<<>>, [virtualPrivateGateway |-> [asn |-> 65000]]}}

\* NAT gateways, in subnets that were imported, that the configuration declares
\* but no record carries, and that nobody declares
NatGatewayRecord(logicalId, name, subnet) ==
  Tagged(RESOURCE_TYPE.NAT_GATEWAY, logicalId, name,
         [SubnetId |-> subnet, AllocationId |-> "eipalloc-" \o logicalId])

SubnetRecordSets ==
  {<<SubnetRecord("SubnetA", "Prod-A", "VpcProd")>>,
   <<SubnetRecord("SubnetA", "Prod-A", "VpcProd"), SubnetRecord("SubnetB", "Prod-B", "VpcProd")>>}

SubnetConfigSets == {<<ProdSubnetA>>, <<ProdSubnetA, ProdSubnetB>>}

NatGatewayConfig(name, subnet) == [name |-> name, subnet |-> subnet]

NatGatewayInputs ==
  {Input(Props(ProdStack(subnetRecords \o natRecords)),
         <<VpcConfig("Prod", <<"10.1.0.0/16">>, nats @@ [subnets |-> subnetConfigs])>>,
         parameters) :
     parameters \in {<<>>, (getSsmPath("SUBNET", <<"Prod", "Prod-B">>) :> "subnet-exported-b")},
     subnetRecords \in SubnetRecordSets,
     natRecords \in {<<>>, <<NatGatewayRecord("NatA", "Nat-A", "SubnetB")>>,
                     <<NatGatewayRecord("NatA", "Nat-A", "SubnetB"),
                       NatGatewayRecord("NatB", "Nat-B", "SubnetB")>>},
     subnetConfigs \in SubnetConfigSets,
     nats \in {<<>>} \cup
              {[natGateways |-> list] :
                 list \in {<<>>,
                           <<NatGatewayConfig("Nat-A", "Prod-A")>>,
                           <<NatGatewayConfig("Nat-B", "Prod-B")>>,
                           <<NatGatewayConfig("Nat-A", "Prod-A"), NatGatewayConfig("Nat-B", "Prod-B")>>,
                           <<NatGatewayConfig("Nat-B", "Prod-B"), NatGatewayConfig("Nat-A", "Prod-A")>>}}}

\* transit gateway attachments with their propagation and association
TgwAttachmentRecord ==
  Tagged(RESOURCE_TYPE.TGW_ATTACHMENT, "TgwAttach", "Main_att",
         [SubnetIds |-> <<"SubnetB">>, TransitGatewayId |-> "tgw-main", VpcId |-> [Ref |-> "VpcProd"]])

TgwRouteTableRecords ==
  <<Record(RESOURCE_TYPE.TGW_PROPAGATION, "TgwPropagation",
           [TransitGatewayAttachmentId |-> [Ref |-> "TgwAttach"],
            TransitGatewayRouteTableId |-> "phys-TgwRouteCore"]),
    Record(RESOURCE_TYPE.TGW_ASSOCIATION, "TgwAssociation",
           [TransitGatewayAttachmentId |-> [Ref |-> "TgwAttach"],
            TransitGatewayRouteTableId |-> "phys-TgwRouteCore"])>>

\* the stack of phase 0 that holds the transit gateway route table
TemplateMap ==
  <<[phase |-> 0, accountKey |-> "network", region |-> "us-east-1",
     resources |-> <<Tagged("AWS::EC2::TransitGatewayRouteTable", "TgwRouteCore", "core", <<>>)>>]>>

TgwAttachmentConfig(subnetNames, routeTables) ==
  [name |-> "Main_att", subnets |-> subnetNames,
   transitGateway |-> [name |-> "Main", account |-> "network"],
   routeTableAssociations |-> routeTables, routeTablePropagations |-> routeTables]

TgwInputs ==
  {Input(Props(ProdStack(subnetRecords \o tgwRecords)) @@ [templateMap |-> TemplateMap],
         <<VpcConfig("Prod", <<"10.1.0.0/16">>, attachments @@ [subnets |-> subnetConfigs])>>,
         <<>>) :
     subnetRecords \in SubnetRecordSets,
     tgwRecords \in {<<>>, <<TgwAttachmentRecord>>, <<TgwAttachmentRecord>> \o TgwRouteTableRecords},
     subnetConfigs \in SubnetConfigSets,
     attachments \in {<<>>} \cup
                     {[transitGatewayAttachments |-> list] :
                        list \in {<<>>,
                                  <<TgwAttachmentConfig(<<"Prod-A">>, <<"core">>)>>,
                                  <<TgwAttachmentConfig(<<"Prod-A", "Prod-B">>, <<"core", "shared">>)>>}}}

\* gateway endpoints: the endpoint of a service holds no list of route tables,
\* an empty one, one with the route table the configuration routes to the
\* service, or one with another route table
EndpointRecord(logicalId, service, more) ==
  Record(RESOURCE_TYPE.VPC_ENDPOINT, logicalId,
         more @@ [ServiceName |-> [FnJoin |-> <<"", <<"com.amazonaws.", "us-east-1", "." \o service>>>>],
                  VpcId |-> [Ref |-> "VpcProd"], VpcEndpointType |-> "Gateway"])

RouteTableConfig(name, targets) ==
  [name |-> name, routes |-> [i \in DOMAIN targets |-> [name |-> name \o ToString(i),
                                                        target |-> targets[i]]]]

\* the endpoints of s3 and dynamodb, the route tables that route to them and
\* the route table ids exported earlier
EndpointInputs ==
  LET EndpointRecordSets ==
        {s3 \o dynamodb :
           s3 \in {<<>>} \cup {<<EndpointRecord("S3Endpoint", "s3", more)>> :
                                 more \in {<<>>, [RouteTableIds |-> <<>>],
                                           [RouteTableIds |-> <<"rtb-1">>],
                                           [RouteTableIds |-> <<"rtb-9">>]}},
           dynamodb \in {<<>>, <<EndpointRecord("DynamodbEndpoint", "dynamodb", [RouteTableIds |-> <<>>])>>}}
      RouteTableParameters ==
        {<<>>,
         (getSsmPath("ROUTE_TABLE", <<"Prod", "Rt-1">>) :> "rtb-1"),
         (getSsmPath("ROUTE_TABLE", <<"Prod", "Rt-1">>) :> "rtb-1")
           @@ (getSsmPath("ROUTE_TABLE", <<"Prod", "Rt-2">>) :> "rtb-2")}
  IN {Input(Props(ProdStack(records)),
            <<VpcConfig("Prod", <<"10.1.0.0/16">>, routeTables @@ endpoints)>>, parameters) :
        records \in EndpointRecordSets,
        routeTables \in {<<>>,
                         [routeTables |-> <<RouteTableConfig("Rt-1", <<"s3", "s3">>)>>],
                         [routeTables |-> <<RouteTableConfig("Rt-1", <<"s3">>),
                                            RouteTableConfig("Rt-2", <<"dynamodb", "s3">>)>>]},
        endpoints \in {<<>>,
                       [gatewayEndpoints |-> [endpoints |-> <<[service |-> "s3"]>>]],
                       [gatewayEndpoints |-> [endpoints |-> <<[service |-> "s3"],
                                                              [service |-> "dynamodb"]>>]]},
        parameters \in RouteTableParameters}

\* security groups: the group Web with up to two legacy ingress rules, in
\* either order, with or without a rule list of its own, one inbound rule item
\* and up to two outbound rule items
SecurityGroupRecord(logicalId, name) ==
  Record(RESOURCE_TYPE.SECURITY_GROUP, logicalId,
         [GroupName |-> name, GroupDescription |-> name, VpcId |-> [Ref |-> "VpcProd"]])

RuleRecord(resourceType, logicalId, group, rule) ==
  Record(resourceType, logicalId, rule @@ [GroupId |-> [Ref |-> group]])

LegacyIngressRules ==
  {RuleRecord(RESOURCE_TYPE.SECURITY_GROUP_INGRESS, "WebHttps", "SgWeb",
              [IpProtocol |-> "tcp", FromPort |-> 443, ToPort |-> 443, CidrIp |-> "10.0.0.0/16"]),
   RuleRecord(RESOURCE_TYPE.SECURITY_GROUP_INGRESS, "WebHttpsFromApp", "SgWeb",
              [IpProtocol |-> "tcp", FromPort |-> 443, ToPort |-> 443,
               SourceSecurityGroupId |-> [Ref |-> "SgApp"]]),
   RuleRecord(RESOURCE_TYPE.SECURITY_GROUP_INGRESS, "WebAll", "SgWeb",
              [IpProtocol |-> "-1", CidrIp |-> "10.0.0.0/16"]),
   RuleRecord(RESOURCE_TYPE.SECURITY_GROUP_INGRESS, "WebHttpsOther", "SgWeb",
              [IpProtocol |-> "tcp", FromPort |-> 443, ToPort |-> 443, CidrIp |-> "10.2.0.0/16"]),
   RuleRecord(RESOURCE_TYPE.SECURITY_GROUP_INGRESS, "WebRange", "SgWeb",
              [IpProtocol |-> "tcp", FromPort |-> 22, ToPort |-> 443, CidrIp |-> "10.0.0.0/16"]),
   RuleRecord(RESOURCE_TYPE.SECURITY_GROUP_INGRESS, "WebUdp", "SgWeb",
              [IpProtocol |-> "udp", FromPort |-> 443, ToPort |-> 443, CidrIp |-> "10.0.0.0/16"]),
   RuleRecord(RESOURCE_TYPE.SECURITY_GROUP_INGRESS, "AppHttps", "SgApp",
              [IpProtocol |-> "tcp", FromPort |-> 443, ToPort |-> 443, CidrIp |-> "10.0.0.0/16"])}

LegacyEgressRule ==
  RuleRecord(RESOURCE_TYPE.SECURITY_GROUP_EGRESS, "WebEgress", "SgWeb",
             [IpProtocol |-> "-1", CidrIp |-> "10.2.0.0/16"])

OutboundRuleItems ==
  <<[description |-> "out", types |-> <<"ALL">>, sources |-> <<[value |-> "10.2.0.0/16"]>>],
    [description |-> "out", tcpPorts |-> <<443>>, sources |-> <<[value |-> "10.0.0.0/16"]>>]>>

SecurityGroupConfig(name, inboundRules, outboundRules) ==
  [name |-> name, description |-> name, inboundRules |-> inboundRules,
   outboundRules |-> outboundRules]

\* the groups Web and App with their legacy rules, the groups Web, App and Db
\* in the configuration
SecurityGroupInputs ==
  LET LegacyIngressLists ==
        {<<>>} \cup {<<r>> : r \in LegacyIngressRules}
               \cup {<<pair[1], pair[2]>> :
                       pair \in {p \in LegacyIngressRules \X LegacyIngressRules : p[1] # p[2]}}
      RuleSources ==
        {<<[value |-> "10.0.0.0/16"]>>,
         <<[securityGroups |-> <<"App">>]>>,
         <<[value |-> "10.0.0.0/16"], [securityGroups |-> <<"App">>]>>}
      InboundRuleItems ==
        {ports @@ [description |-> "in", sources |-> sources] :
           ports \in {[tcpPorts |-> <<443>>], [tcpPorts |-> <<22>>], [tcpPorts |-> <<22, 443>>],
                      [udpPorts |-> <<443>>], [types |-> <<"ALL">>], [types |-> <<"HTTPS">>]},
           sources \in RuleSources}
      \* the rule list the group Web holds in its own properties, as the
      \* included resource exposes it (securityGroup.securityGroupIngress)
      InlineIngress ==
        [SecurityGroupIngress |->
           <<[ipProtocol |-> "tcp", description |-> "legacy", cidrIp |-> "10.2.0.0/16",
              fromPort |-> 80, toPort |-> 80]>>]
      LegacyRules ==
        {rules \in LegacyIngressLists \X {<<>>, InlineIngress} :
           rules[2] = <<>> \/ Len(rules[1]) <= 1}
  IN {Input(Props(ProdStack(<<LET group == SecurityGroupRecord("SgWeb", "Web")
                               IN [group EXCEPT !.Properties = legacy[2] @@ @],
                              SecurityGroupRecord("SgApp", "App")>>
                              \o legacy[1] \o egress)),
            <<VpcConfig("Prod", <<"10.1.0.0/16">>,
                        [securityGroups |->
                           <<SecurityGroupConfig("Web", <<inbound>>, SubSeq(OutboundRuleItems, 1, outbound)),
                             SecurityGroupConfig("App", <<>>, <<>>),
                             SecurityGroupConfig("Db", <<>>, SubSeq(OutboundRuleItems, 1, 1))>>])>>,
            <<>>) :
        legacy \in LegacyRules, egress \in {<<>>, <<LegacyEgressRule>>},
        inbound \in InboundRuleItems, outbound \in 0..Len(OutboundRuleItems)}

\* network firewalls: up to two legacy firewalls with one logging
\* configuration record, a policy with its rule group; the configuration
\* declares firewalls with or without logging, in a subnet that was imported or
\* not, with a policy of this run, of an earlier run or of neither
FirewallRecord(logicalId, name) ==
  Record(RESOURCE_TYPE.NETWORK_FIREWALL, logicalId,
         [FirewallName |-> name, FirewallPolicyArn |-> "arn-legacy-policy",
          SubnetMappings |-> <<"SubnetB">>, VpcId |-> "VpcLegacy", DeleteProtection |-> TRUE])

FirewallLoggingRecord ==
  Record(RESOURCE_TYPE.NETWORK_FIREWALL_LOGGING, "NfwLogging",
         [FirewallArn |-> "Nfw",
          LoggingConfiguration |->
            [logDestinationConfigs |-> <<[logDestinationType |-> "S3", logType |-> "ALERT"]>>]])

FirewallPolicyRecords ==
  <<Record(RESOURCE_TYPE.NETWORK_FIREWALL_RULE_GROUP, "NfwRules",
           [RuleGroupName |-> "Rules-A", Type |-> "STATEFUL", RuleGroup |-> "legacy rules"]),
    Record(RESOURCE_TYPE.NETWORK_FIREWALL_POLICY, "NfwPolicy",
           [FirewallPolicyName |-> "Policy-A",
            FirewallPolicy |-> [statefulRuleGroupReferences |-> <<>>]])>>

FirewallConfig(name, subnetNames, firewallPolicy, more) ==
  more @@ [name |-> name, vpc |-> "Prod", subnets |-> subnetNames,
           firewallPolicy |-> firewallPolicy]

\* the firewalls Fw-A and Fw-B of the VPC Prod
NetworkFirewallInputs ==
  LET FirewallRecordSets ==
        {policy \o firewalls \o logging :
           policy \in {<<>>, FirewallPolicyRecords},
           firewalls \in {<<>>, <<FirewallRecord("Nfw", "Fw-A")>>,
                          <<FirewallRecord("Nfw", "Fw-A"), FirewallRecord("Nfw2", "Fw-B")>>},
           logging \in {<<>>, <<FirewallLoggingRecord>>}}
      FirewallConfigs ==
        {FirewallConfig("Fw-A", subnetNames, firewallPolicy, logging) :
           subnetNames \in {<<"Prod-A">>, <<"Prod-B">>},
           firewallPolicy \in {"Policy-A", "Policy-X"},
           logging \in {<<>>,
                        [loggingConfiguration |-> <<[destination |-> "s3", type |-> "FLOW"]>>],
                        [loggingConfiguration |-> <<[destination |-> "cloud-watch-logs", type |-> "ALERT"]>>]}}
      SecondFirewallConfig == FirewallConfig("Fw-B", <<"Prod-A">>, "Policy-A", <<>>)
      NetworkFirewallConfigs ==
        {[rules |-> policies[1], policies |-> policies[2], firewalls |-> firewalls] :
           policies \in {<<<<>>, <<>>>>,
                         <<<<[name |-> "Rules-A", ruleGroup |-> "configured rules"]>>,
                           <<[name |-> "Policy-A",
                              firewallPolicy |->
                                [statefulRuleGroups |-> <<[name |-> "Rules-A", priority |-> 1],
                                                          [name |-> "Rules-B", priority |-> 2]>>]]>>>>},
           firewalls \in {<<>>, <<SecondFirewallConfig>>}
                           \cup {<<firewall>> : firewall \in FirewallConfigs}
                           \cup {<<firewall, SecondFirewallConfig>> : firewall \in FirewallConfigs}}
      PolicyParameters ==
        {<<>>,
         (getSsmPath("NFW_POLICY", <<"Policy-A">>) :> "arn-exported-policy-a"),
         (getSsmPath("NFW_POLICY", <<"Policy-X">>) :> "arn-exported-policy-x")}
  IN {Input(Props(ProdStack(<<SubnetRecord("SubnetA", "Prod-A", "VpcProd")>> \o records)) @@ firewall,
            <<VpcConfig("Prod", <<"10.1.0.0/16">>, [subnets |-> <<ProdSubnetA>>])>>, parameters) :
        records \in FirewallRecordSets,
        firewall \in {<<>>} \cup {[networkFirewall |-> config] : config \in NetworkFirewallConfigs},
        parameters \in PolicyParameters}

\* a stack of another phase than the one the VPC resources are handled in
OtherPhaseInputs ==
  {Input([stackInfo |-> StackInfo(ASEA_PHASE_NUMBER - 1),
          nestedStacksInfo |-> <<NestedStack("NS1", <<VpcRecord("VpcProd", "Prod")>>)>>],
         <<VpcConfig("Prod", <<"10.1.0.0/16">>, <<>>)>>, <<>>)}

Inputs ==
  NetworkInputs \cup GatewayInputs \cup NatGatewayInputs \cup TgwInputs \cup EndpointInputs
    \cup SecurityGroupInputs \cup NetworkFirewallInputs
    \cup OtherPhaseInputs

(***************************************************************************)
(* Amazon Security Lake: the organization's delegated administrator       *)
(***************************************************************************)
\* the service principal RegisterOrganizationAdmin.handler looks up
RegisterServicePrincipal == "securitylake.amazonaws.com"

\* the service principal DeregisterOrganizationAdmin.handler looks up
DeregisterServicePrincipal == "securitylake.amazon.com"

\* the account of the configuration and another account of the organization
ConfiguredAccount == "111122223333"

OtherAccount == "999988887777"

\* getOrganizationDelegatedAdminAccountId(client, servicePrincipal): the one
\* delegated administrator Organizations lists for the principal, undefined
\* when it lists none (it lists none for a principal no service has), an error
\* when it lists more than one
getOrganizationDelegatedAdminAccountId(servicePrincipal) ==
  LET listed == IF servicePrincipal \in DOMAIN delegatedAdministrators
                THEN delegatedAdministrators[servicePrincipal] ELSE <<>>
  IN IF Len(listed) > 1
     THEN [accountId |-> Undefined,
           error |-> "Internal Error: Only 1 delegation admin should be set for "
                       \o servicePrincipal \o ", " \o ToString(Len(listed))
                       \o " received from the API."]
     ELSE IF Len(listed) = 1 THEN [accountId |-> listed[1], error |-> NoError]
     ELSE [accountId |-> Undefined, error |-> NoError]

\* a decision that registers the configured account whatever admin is set
processSetOrganizationAdminActionNeverUpdates(newAdminAccount, currentAccount) ==
  IF currentAccount = newAdminAccount THEN "SKIP" ELSE "SET_DELEGATED_ADMIN"

\* RegisterOrganizationAdmin.processSetOrganizationAdminAction
processSetOrganizationAdminAction(newAdminAccount, currentAccount) ==
  IF ~TruthyStr(currentAccount) THEN "SET_DELEGATED_ADMIN"
  ELSE IF currentAccount = newAdminAccount THEN "SKIP"
  ELSE "UPDATE_DELEGATED_ADMIN"

\* RegisterOrganizationAdmin.generateStatusMessage
generateStatusMessage(action, dryRun, newAdminAccount, currentAdminAccount) ==
  LET dryRunPhrase == IF dryRun THEN " will be" ELSE ""
      status ==
        IF dryRun
        THEN "[DRY-RUN]: AcceleratorSecurityLake SetOrganizationAdmin operation validated successfully (no actual changes were made).\nValidation: Successful\nStatus: "
        ELSE "AcceleratorSecurityLake SetOrganizationAdmin operation completed successfully.\nStatus: "
  IN CASE action = "SET_DELEGATED_ADMIN" ->
            status \o "Account " \o newAdminAccount \o dryRunPhrase
              \o " registered as Amazon Security Lake Delegated Admin"
       [] action = "UPDATE_DELEGATED_ADMIN" ->
            status \o "Amazon Security Lake delegated admin account" \o dryRunPhrase
              \o " changed from " \o currentAdminAccount \o " to " \o newAdminAccount \o "."
       [] action = "SKIP" ->
            status \o "Operation found current admin account is already " \o currentAdminAccount
              \o ", set organization admin operation" \o dryRunPhrase \o " skipped."

\* DeregisterOrganizationAdmin.generateStatusMessage
generateDeregisterStatusMessage(action, dryRun) ==
  LET dryRunPhrase == IF dryRun THEN " will be" ELSE ""
      status ==
        IF dryRun
        THEN "[DRY-RUN]: Amazon Security Lake de-register organization admin operation validated successfully (no actual changes were made).\nValidation: Successful\nStatus: "
        ELSE "Amazon Security Lake de-register Organization admin operation completed successfully.\nStatus: "
  IN CASE action = "DEREGISTER_DELEGATED_ADMIN" ->
            status \o "Amazon Security Lake Delegated admin account" \o dryRunPhrase
              \o " de-registered."
       [] action = "DEREGISTER_SKIPPED" ->
            status \o "Operation found Amazon Security Lake delegated administrator not set, de-registration"
              \o dryRunPhrase \o " skipped."

\* !!props.dryRun, with props.dryRun optional
DryRun == Has(lakeProps, "dryRun") /\ lakeProps.dryRun

\* a handler that was not called
IdleHandler ==
  [pc |-> "idle", currentAdmin |-> Undefined, action |-> "none", status |-> Undefined,
   error |-> NoError]

HomeRegion == "us-east-1"
OtherRegion == "eu-west-1"
PolicyName == "GuardRails"
PolicyType == "SERVICE_CONTROL_POLICY"
ExistingPolicyId == "p-existing"
NewPolicyId == "p-new"
NoResult == [PhysicalResourceId |-> Undefined, Status |-> Undefined]

\* a handler that was not invoked
IdlePolicyHandler ==
  [pc |-> "idle", caller |-> "none", policyId |-> Undefined, targetIds |-> {},
   result |-> NoResult, error |-> NoError]

\* no custom resource event in this process
PolicyHandlerNotCalled ==
  /\ event = [RequestType |-> "none"]
  /\ organization = [policies |-> <<>>, attachments |-> {}]
  /\ policyHandler = IdlePolicyHandler
  /\ detachCalls = {}
  /\ policyRequests = <<>>

\* no Security Lake operation in this process
SecurityLakeNotCalled ==
  /\ lakeProps = [operation |-> "none", configuration |-> <<>>]
  /\ delegatedAdministrators = (RegisterServicePrincipal :> <<>>)
  /\ registerHandler = IdleHandler
  /\ deregisterHandler = IdleHandler
  /\ floating = {}
  /\ securityLakeRequests = <<>>

\* RegisterOrganizationAdmin.handler, lines 46-57: up to the await of the lookup
RegisterHandlerCalled ==
  /\ lakeProps.operation = "set-organization-admin"
  /\ registerHandler.pc = "idle"
  /\ registerHandler' =
       IF ~TruthyStr(StrProp(lakeProps.configuration, "delegatedAdminAccount"))
       THEN [registerHandler EXCEPT
               !.pc = "rejected",
               !.error = "Internal Error: Amazon Security Lake delegated Account Id not provided, operation aborted."]
       ELSE [registerHandler EXCEPT !.pc = "awaitCurrentAdmin"]
  /\ UNCHANGED <<policyLambda, vpcState, lakeProps, delegatedAdministrators, deregisterHandler, floating,
                 securityLakeRequests>>

\* RegisterOrganizationAdmin.handler, lines 57-94: from the result of the lookup
\* to the return. The handler of the deregistration is called and runs up to
\* its own lookup; neither it nor registerDelegatedAdmin is awaited
RegisterHandlerResumes ==
  /\ registerHandler.pc = "awaitCurrentAdmin"
  /\ LET found == getOrganizationDelegatedAdminAccountId(RegisterServicePrincipal)
         currentAdmin == found.accountId
         newAdminAccount == lakeProps.configuration.delegatedAdminAccount
         action == processSetOrganizationAdminAction(newAdminAccount, currentAdmin)
     IN IF found.error # NoError
        THEN /\ registerHandler' = [registerHandler EXCEPT !.pc = "rejected", !.error = found.error]
             /\ UNCHANGED <<deregisterHandler, floating>>
        ELSE /\ registerHandler' =
                  [pc |-> "returned", currentAdmin |-> currentAdmin, action |-> action,
                   status |-> generateStatusMessage(action, DryRun, newAdminAccount,
                                                    currentAdmin),
                   error |-> NoError]
             /\ deregisterHandler' =
                  IF action = "UPDATE_DELEGATED_ADMIN"
                  THEN [deregisterHandler EXCEPT !.pc = "awaitCurrentAdmin"]
                  ELSE deregisterHandler
             /\ floating' =
                  IF action # "SKIP" /\ ~DryRun
                  THEN floating \cup {[command |-> "RegisterDataLakeDelegatedAdministrator",
                                       accountId |-> newAdminAccount]}
                  ELSE floating
  /\ UNCHANGED <<policyLambda, vpcState, lakeProps, delegatedAdministrators, securityLakeRequests>>

\* DeregisterOrganizationAdmin.handler called as the operation, lines 44-52
DeregisterHandlerCalled ==
  /\ lakeProps.operation = "deregister-organization-admin"
  /\ deregisterHandler.pc = "idle"
  /\ deregisterHandler' = [deregisterHandler EXCEPT !.pc = "awaitCurrentAdmin"]
  /\ UNCHANGED <<policyLambda, vpcState, lakeProps, delegatedAdministrators, registerHandler, floating,
                 securityLakeRequests>>

\* DeregisterOrganizationAdmin.handler, lines 52-75: from the result of the
\* lookup to the return; deregisterDelegatedAdmin is not awaited
DeregisterHandlerResumes ==
  /\ deregisterHandler.pc = "awaitCurrentAdmin"
  /\ LET found == getOrganizationDelegatedAdminAccountId(DeregisterServicePrincipal)
         currentAdmin == found.accountId
         action == IF ~TruthyStr(currentAdmin) THEN "DEREGISTER_SKIPPED"
                   ELSE "DEREGISTER_DELEGATED_ADMIN"
     IN IF found.error # NoError
        THEN /\ deregisterHandler' =
                  [deregisterHandler EXCEPT !.pc = "rejected", !.error = found.error]
             /\ UNCHANGED floating
        ELSE /\ deregisterHandler' =
                  [pc |-> "returned", currentAdmin |-> currentAdmin, action |-> action,
                   status |-> generateDeregisterStatusMessage(action, DryRun),
                   error |-> NoError]
             /\ floating' =
                  IF action = "DEREGISTER_DELEGATED_ADMIN" /\ ~DryRun
                  THEN floating \cup {[command |-> "DeregisterDataLakeDelegatedAdministrator",
                                       accountId |-> Undefined]}
                  ELSE floating
  /\ UNCHANGED <<policyLambda, vpcState, lakeProps, delegatedAdministrators, registerHandler, securityLakeRequests>>

\* registerDelegatedAdmin and deregisterDelegatedAdmin: throttlingBackOff calls
\* client.send once the call that nobody awaits gets to run
SendRequest ==
  /\ \E call \in floating :
       /\ floating' = floating \ {call}
       /\ securityLakeRequests' =
            Append(securityLakeRequests,
                   [command |-> call.command, accountId |-> call.accountId,
                    outcome |-> "pending"])
  /\ UNCHANGED <<policyLambda, vpcState, lakeProps, delegatedAdministrators, registerHandler, deregisterHandler>>

\* Security Lake answers a request: it fails, or it succeeds and Organizations
\* then lists the registered account, or none after a deregistration
RequestCompletes ==
  /\ \E k \in DOMAIN securityLakeRequests, outcome \in {"succeeded", "failed"} :
       /\ securityLakeRequests[k].outcome = "pending"
       /\ securityLakeRequests' = [securityLakeRequests EXCEPT ![k].outcome = outcome]
       /\ delegatedAdministrators' =
            IF outcome = "failed" THEN delegatedAdministrators
            ELSE IF securityLakeRequests[k].command = "RegisterDataLakeDelegatedAdministrator"
            THEN [delegatedAdministrators EXCEPT
                    ![RegisterServicePrincipal] = <<securityLakeRequests[k].accountId>>]
            ELSE [delegatedAdministrators EXCEPT ![RegisterServicePrincipal] = <<>>]
  /\ UNCHANGED <<policyLambda, vpcState, lakeProps, registerHandler, deregisterHandler, floating>>

\* registerDelegatedAdmin of the executor: it returns what the handler returned
\* and rethrows what the handler rejected with, as the text of a new Error
registerDelegatedAdmin ==
  CASE registerHandler.pc = "returned" ->
         [settled |-> "returned", status |-> registerHandler.status, error |-> NoError]
    [] registerHandler.pc = "rejected" ->
         [settled |-> "rejected", status |-> Undefined,
          error |-> "Error: " \o registerHandler.error]
    [] OTHER -> [settled |-> "pending", status |-> Undefined, error |-> NoError]

(***************************************************************************)
(* Runs                                                                    *)
(***************************************************************************)
NoRun ==
  [from |-> "none", template |-> <<>>, aseaResources |-> <<>>, stringParameters |-> <<>>,
   logs |-> <<>>, logGroups |-> <<>>, error |-> NoError, pc |-> "none"]

\* the nested stacks as the mapping describes them once the templates a run
\* produced are in place
Produced(nestedStacksInfo, produced) ==
  [i \in DOMAIN nestedStacksInfo |->
     LET resources == nestedStacksInfo[i].resources
     IN [nestedStacksInfo[i] EXCEPT !.resources =
           [k \in DOMAIN resources |->
              [resources[k] EXCEPT !.Properties = produced[resources[k].logicalResourceId]]]]]

\* new VpcResources(scope, props): the state a run starts in
Start(nestedStacksInfo) ==
  /\ template = IncludedTemplate(nestedStacksInfo)
  /\ pc = "constructor"
  /\ vpcIndex = 1
  /\ vpcResourceInfo = NoVpcResource
  /\ subnets = <<>>
  /\ tgwAttachmentMap = <<>>
  /\ ssmParameters = <<>>
  /\ stringParameters = <<>>
  /\ aseaResources = <<>>
  /\ logs = <<>>
  /\ logGroups = <<>>
  /\ error = NoError

Init ==
  /\ \E input \in Inputs :
       /\ props = input.props
       /\ vpcsInScope = input.vpcsInScope
       /\ externalParameters = input.externalParameters
  /\ run = 1
  /\ firstRun = NoRun
  /\ Start(props.nestedStacksInfo)
  /\ SecurityLakeNotCalled
  /\ PolicyHandlerNotCalled

\* a second run of the same configuration, on the templates the first run
\* produced or again on the original legacy templates
RerunOn(from, nestedStacksInfo) ==
  /\ pc \in {"done", "aborted"}
  /\ run = 1
  /\ run' = 2
  /\ firstRun' = [from |-> from, template |-> template, aseaResources |-> aseaResources,
                  stringParameters |-> stringParameters, logs |-> logs,
                  logGroups |-> logGroups, error |-> error, pc |-> pc]
  /\ props' = [props EXCEPT !.nestedStacksInfo = nestedStacksInfo]
  /\ template' = IncludedTemplate(nestedStacksInfo)
  /\ pc' = "constructor"
  /\ vpcIndex' = 1
  /\ vpcResourceInfo' = NoVpcResource
  /\ subnets' = <<>>
  /\ tgwAttachmentMap' = <<>>
  /\ ssmParameters' = <<>>
  /\ stringParameters' = <<>>
  /\ aseaResources' = <<>>
  /\ logs' = <<>>
  /\ logGroups' = <<>>
  /\ error' = NoError
  /\ UNCHANGED <<policyLambda, securityLake, vpcsInScope, externalParameters>>

RerunOnProduced == RerunOn("produced", Produced(props.nestedStacksInfo, template))

RerunOnOriginal == RerunOn("original", props.nestedStacksInfo)

Next ==
  \/ Constructor
  \/ GetVpcResourceByTag
  \/ SetupInternetGateway
  \/ SetupVpnGateway
  \/ VpcAttributes
  \/ CreateSubnets
  \/ CreateNatGateways
  \/ CreateSecurityGroups
  \/ CreateTransitGatewayAttachments
  \/ CreateTransitGatewayRouteTablePropagation
  \/ CreateTransitGatewayRouteTableAssociation
  \/ CreateNetworkFirewallResources
  \/ GatewayEndpoints
  \/ AddVpc
  \/ CreateSsmParameters

Spec == Init /\ [][Next]_vars

NextRerun == Next \/ RerunOnProduced \/ RerunOnOriginal

SpecRerun == Init /\ [][NextRerun]_vars

(***************************************************************************)
(* The exporter under any number of exports: the mergers of one loop body  *)
(* (lines 116-169) are taken by what they queue only.                      *)
(***************************************************************************)
MaxParameters == 12

ExportInputs ==
  {Input(Props(<<NestedStack("NS1", <<VpcRecord("VpcProd", "Prod")>>),
                 NestedStack("NS2", <<VpcRecord("VpcDev", "Dev")>>)>>),
         vpcs, <<>>) :
     vpcs \in {<<VpcConfig("Prod", <<"10.1.0.0/16">>, <<>>)>>,
               <<VpcConfig("Prod", <<"10.1.0.0/16">>, <<>>),
                 VpcConfig("Dev", <<"10.3.0.0/16">>, <<>>)>>}}

InitExport ==
  /\ \E input \in ExportInputs :
       /\ props = input.props
       /\ vpcsInScope = input.vpcsInScope
       /\ externalParameters = input.externalParameters
  /\ run = 1
  /\ firstRun = NoRun
  /\ Start(props.nestedStacksInfo)
  /\ SecurityLakeNotCalled
  /\ PolicyHandlerNotCalled

RECURSIVE QueueSubnets(_, _, _)
QueueSubnets(s, vpcName, n) ==
  IF n = 0 THEN s
  ELSE addSsmParameter(QueueSubnets(s, vpcName, n - 1),
                       getSsmPath("SUBNET", <<vpcName, "Subnet" \o ToString(n)>>),
                       "Subnet" \o ToString(n))

\* the mergers between the match of the VPC and the export of the VPC queue n exports
MergersExport ==
  /\ pc = "setupInternetGateway"
  /\ \E n \in 0..(MaxParameters - 1) :
       Continue(QueueSubnets(Current, vpcInScope.name, n), "addVpc")

NextExport ==
  \/ Constructor
  \/ GetVpcResourceByTag
  \/ MergersExport
  \/ AddVpc
  \/ CreateSsmParameters

SpecExport == InitExport /\ [][NextExport]_vars

(***************************************************************************)
(* The Security Lake executor                                              *)
(***************************************************************************)
\* the parameters of a call and the delegated administrators Organizations
\* lists when it is made; no VpcResources is constructed in this process
InitSecurityLake ==
  /\ lakeProps \in
       {called @@ dryRun :
          called \in [operation : {"set-organization-admin", "deregister-organization-admin"},
                      configuration : {<<>>, [delegatedAdminAccount |-> ConfiguredAccount]}],
          dryRun \in {<<>>, [dryRun |-> FALSE], [dryRun |-> TRUE]}}
  /\ delegatedAdministrators \in
       {(RegisterServicePrincipal :> listed) :
          listed \in {<<>>, <<ConfiguredAccount>>, <<OtherAccount>>,
                      <<ConfiguredAccount, OtherAccount>>}}
  /\ registerHandler = IdleHandler
  /\ deregisterHandler = IdleHandler
  /\ floating = {}
  /\ securityLakeRequests = <<>>
  /\ props = <<>>
  /\ vpcsInScope = <<>>
  /\ externalParameters = <<>>
  /\ run = 1
  /\ firstRun = NoRun
  /\ Start(<<>>)
  /\ PolicyHandlerNotCalled

NextSecurityLake ==
  \/ RegisterHandlerCalled
  \/ RegisterHandlerResumes
  \/ DeregisterHandlerCalled
  \/ DeregisterHandlerResumes
  \/ SendRequest
  \/ RequestCompletes

SpecSecurityLake == InitSecurityLake /\ [][NextSecurityLake]_vars

(***************************************************************************)
(* The policy Lambda handler                                               *)
(***************************************************************************)
\* the policies Organizations holds beside the one of the event: one of the
\* same name and another type, one of the same type and another name
OtherPolicies ==
  <<[Id |-> "p-tag", Name |-> PolicyName, Type |-> "TAG_POLICY"],
    [Id |-> "p-other", Name |-> "Other", Type |-> PolicyType]>>

ExistingPolicy == [Id |-> ExistingPolicyId, Name |-> PolicyName, Type |-> PolicyType]

\* the targets the policy of the event can be attached to
PolicyAttachments ==
  {[PolicyId |-> ExistingPolicyId, TargetId |-> targetId] : targetId \in {"ou-1", "111122223333"}}

\* the policies without the deleted one
FilterPolicies(policies, policyId) ==
  SelectSeq(policies, LAMBDA policy : policy.Id # policyId)

\* getPolicyId, lines 121-135: the id of the first listed policy of the type
\* with the name
getPolicyId(policies, policyName, type) ==
  LET found == {i \in DOMAIN policies :
                  policies[i].Type = type /\ policies[i].Name = policyName}
  IN IF found = {} THEN Undefined
     ELSE policies[CHOOSE i \in found : \A j \in found : i <= j].Id

\* a request the handler sends
Issue(command, target) ==
  Append(policyRequests, [command |-> command, target |-> target, outcome |-> "pending"])

\* the request of the command that has no outcome yet
Pending(command) ==
  {i \in DOMAIN policyRequests :
     policyRequests[i].command = command /\ policyRequests[i].outcome = "pending"}

Completed(i, outcome) == [policyRequests EXCEPT ![i].outcome = outcome]

\* the answers of Organizations to CreatePolicy: a policy of the type with the
\* name exists, or the policy is created, or the service fails
CreatePolicyResponses(policies, name, type) ==
  IF getPolicyId(policies, name, type) # Undefined
  THEN {[Id |-> Undefined, error |-> "DuplicatePolicyException"]}
  ELSE {[Id |-> NewPolicyId, error |-> NoError],
        [Id |-> Undefined, error |-> "ServiceException"]}

\* createPolicy that fails on every exception
createPolicyThrowsOnDuplicate(handler, createPolicyResponse) ==
  IF createPolicyResponse.error = NoError
  THEN [handler EXCEPT !.pc = "returned", !.policyId = createPolicyResponse.Id,
                       !.result = [PhysicalResourceId |-> createPolicyResponse.Id,
                                   Status |-> "SUCCESS"]]
  ELSE [handler EXCEPT !.pc = "rejected",
                       !.error = "Error in creating policy " \o event.ResourceProperties.name
                                   \o " in AWS Organizations. Exception: "
                                   \o createPolicyResponse.error]

\* createPolicy, lines 200-234, and the return of lines 85-88: the handler
\* after the answer to CreatePolicy
createPolicy(handler, createPolicyResponse) ==
  IF createPolicyResponse.error = NoError
  THEN [handler EXCEPT !.pc = "returned", !.policyId = createPolicyResponse.Id,
                       !.result = [PhysicalResourceId |-> createPolicyResponse.Id,
                                   Status |-> "SUCCESS"]]
  ELSE IF createPolicyResponse.error = "DuplicatePolicyException"
  THEN [handler EXCEPT !.pc = "getPolicyId", !.caller = "createPolicy"]
  ELSE [handler EXCEPT !.pc = "rejected",
                       !.error = "Error in creating policy " \o event.ResourceProperties.name
                                   \o " in AWS Organizations. Exception: "
                                   \o createPolicyResponse.error]

\* handler, lines 44-92: up to the first await
PolicyHandlerCalled ==
  /\ event.RequestType # "none"
  /\ policyHandler.pc = "idle"
  /\ LET currentRegion == event.ResourceProperties.region
         homeRegion == event.ResourceProperties.homeRegion
     IN IF event.RequestType \in {"Create", "Update"}
        THEN IF currentRegion # homeRegion
             THEN /\ policyHandler' =
                       [policyHandler EXCEPT
                          !.pc = "returned",
                          !.result = [PhysicalResourceId |-> "NoOperation", Status |-> "SUCCESS"]]
                  /\ UNCHANGED policyRequests
             ELSE /\ policyHandler' = [policyHandler EXCEPT !.pc = "GetObject"]
                  /\ policyRequests' = Issue("GetObject", event.ResourceProperties.key)
        ELSE IF currentRegion = homeRegion
             THEN /\ policyHandler' = [policyHandler EXCEPT !.pc = "getPolicyId", !.caller = "handler"]
                  /\ policyRequests' = Issue("ListPolicies", event.ResourceProperties.type)
             ELSE /\ policyHandler' =
                       [policyHandler EXCEPT
                          !.pc = "returned",
                          !.result = [PhysicalResourceId |-> event.PhysicalResourceId,
                                      Status |-> "SUCCESS"]]
                  /\ UNCHANGED policyRequests
  /\ UNCHANGED <<vpcState, securityLake, event, organization, detachCalls>>

\* handler, lines 76-83: the policy content is read, createPolicy sends CreatePolicy
GetObjectCompletes ==
  /\ policyHandler.pc = "GetObject"
  /\ \E i \in Pending("GetObject") :
       \/ /\ policyHandler' = [policyHandler EXCEPT !.pc = "CreatePolicy"]
          /\ policyRequests' =
               Append(Completed(i, "succeeded"),
                      [command |-> "CreatePolicy", target |-> event.ResourceProperties.name,
                       outcome |-> "pending"])
       \/ /\ policyHandler' = [policyHandler EXCEPT !.pc = "rejected", !.error = "NoSuchKey"]
          /\ policyRequests' = Completed(i, "NoSuchKey")
  /\ UNCHANGED <<vpcState, securityLake, event, organization, detachCalls>>

\* createPolicy, lines 211-233: the answer to CreatePolicy
CreatePolicyCompletes ==
  /\ policyHandler.pc = "CreatePolicy"
  /\ \E i \in Pending("CreatePolicy") :
       \E createPolicyResponse \in
            CreatePolicyResponses(organization.policies, event.ResourceProperties.name,
                                  event.ResourceProperties.type) :
         /\ policyHandler' = createPolicy(policyHandler, createPolicyResponse)
         /\ organization' =
              IF createPolicyResponse.error = NoError
              THEN [organization EXCEPT
                      !.policies = Append(@, [Id |-> createPolicyResponse.Id,
                                              Name |-> event.ResourceProperties.name,
                                              Type |-> event.ResourceProperties.type])]
              ELSE organization
         /\ policyRequests' =
              LET completed == Completed(i, IF createPolicyResponse.error = NoError
                                            THEN "succeeded" ELSE createPolicyResponse.error)
              IN IF policyHandler'.pc = "getPolicyId"
                 THEN Append(completed, [command |-> "ListPolicies",
                                         target |-> event.ResourceProperties.type,
                                         outcome |-> "pending"])
                 ELSE completed
  /\ UNCHANGED <<vpcState, securityLake, event, detachCalls>>

\* getPolicyId has gone through the pages: lines 228 and 85-88 for createPolicy,
\* lines 92-106 and 149-153 for the deletion
GetPolicyIdCompletes ==
  /\ policyHandler.pc = "getPolicyId"
  /\ \E i \in Pending("ListPolicies") :
       LET policyId == getPolicyId(organization.policies, event.ResourceProperties.name,
                                   event.ResourceProperties.type)
       IN IF policyHandler.caller = "createPolicy"
          THEN /\ policyHandler' =
                    [policyHandler EXCEPT
                       !.pc = "returned", !.policyId = policyId,
                       !.result = [PhysicalResourceId |-> policyId, Status |-> "SUCCESS"]]
               /\ policyRequests' = Completed(i, "succeeded")
          ELSE IF TruthyStr(policyId)
          THEN /\ policyHandler' =
                    [policyHandler EXCEPT !.pc = "ListTargetsForPolicy", !.policyId = policyId]
               /\ policyRequests' =
                    Append(Completed(i, "succeeded"),
                           [command |-> "ListTargetsForPolicy", target |-> policyId,
                            outcome |-> "pending"])
          ELSE /\ policyHandler' =
                    [policyHandler EXCEPT
                       !.pc = "rejected",
                       !.error = "Policy: " \o event.ResourceProperties.name
                                   \o " was not found in AWS Organizations"]
               /\ policyRequests' = Completed(i, "succeeded")
  /\ UNCHANGED <<vpcState, securityLake, event, organization, detachCalls>>

\* detachPolicyFromAllAttachedTargets, lines 149-164, and
\* detachTargetFromSpecificTarget, lines 181-191: the targets are listed and
\* the detach of each is called; the promise of throttlingBackOff is not
\* awaited and not returned, so each call returns at once and Promise.all
\* waits for no request
ListTargetsCompletes ==
  /\ policyHandler.pc = "ListTargetsForPolicy"
  /\ \E i \in Pending("ListTargetsForPolicy") :
       LET targetIds == {a.TargetId : a \in {b \in organization.attachments :
                                                b.PolicyId = policyHandler.policyId}}
       IN /\ policyHandler' = [policyHandler EXCEPT !.pc = "DeletePolicy", !.targetIds = targetIds]
          /\ detachCalls' = targetIds
          /\ policyRequests' = Completed(i, "succeeded")
  /\ UNCHANGED <<vpcState, securityLake, event, organization>>

\* detachTargetFromSpecificTarget, lines 182-184: the client sends the
\* DetachPolicy request of a call
DetachSent ==
  /\ \E targetId \in detachCalls :
       /\ detachCalls' = detachCalls \ {targetId}
       /\ policyRequests' = Issue("DetachPolicy", targetId)
  /\ UNCHANGED <<vpcState, securityLake, event, organization, policyHandler>>

\* Organizations answers a DetachPolicy request; nothing waits for the answer
DetachCompletes ==
  /\ \E i \in Pending("DetachPolicy") :
       LET attachment == [PolicyId |-> policyHandler.policyId,
                          TargetId |-> policyRequests[i].target]
       IN IF attachment \in organization.attachments
          THEN \/ /\ organization' = [organization EXCEPT !.attachments = @ \ {attachment}]
                  /\ policyRequests' = Completed(i, "succeeded")
               \/ /\ policyRequests' = Completed(i, "ServiceException")
                  /\ UNCHANGED organization
          ELSE /\ policyRequests' = Completed(i, "PolicyNotAttachedException")
               /\ UNCHANGED organization
  /\ UNCHANGED <<vpcState, securityLake, event, policyHandler, detachCalls>>

\* handler, lines 99-102: the DeletePolicy request is sent
DeletePolicySent ==
  /\ policyHandler.pc = "DeletePolicy"
  /\ policyHandler' = [policyHandler EXCEPT !.pc = "awaitDeletePolicy"]
  /\ policyRequests' = Issue("DeletePolicy", policyHandler.policyId)
  /\ UNCHANGED <<vpcState, securityLake, event, organization, detachCalls>>

\* handler, lines 100-111: Organizations answers the DeletePolicy request; a
\* policy that is attached to a target is not deleted
DeletePolicyCompletes ==
  /\ policyHandler.pc = "awaitDeletePolicy"
  /\ \E i \in Pending("DeletePolicy") :
       IF \E a \in organization.attachments : a.PolicyId = policyHandler.policyId
       THEN /\ policyHandler' =
                 [policyHandler EXCEPT !.pc = "rejected", !.error = "PolicyInUseException"]
            /\ policyRequests' = Completed(i, "PolicyInUseException")
            /\ UNCHANGED organization
       ELSE \/ /\ policyHandler' =
                    [policyHandler EXCEPT
                       !.pc = "returned",
                       !.result = [PhysicalResourceId |-> event.PhysicalResourceId,
                                   Status |-> "SUCCESS"]]
               /\ organization' =
                    [organization EXCEPT
                       !.policies = FilterPolicies(@, policyHandler.policyId)]
               /\ policyRequests' = Completed(i, "succeeded")
            \/ /\ policyHandler' =
                    [policyHandler EXCEPT !.pc = "rejected", !.error = "ServiceException"]
               /\ policyRequests' = Completed(i, "ServiceException")
               /\ UNCHANGED organization
  /\ UNCHANGED <<vpcState, securityLake, event, detachCalls>>

\* the event of an invocation and what Organizations holds when it arrives;
\* no VpcResources is constructed in this process
InitPolicy ==
  /\ event \in
       {[RequestType |-> requestType,
         PhysicalResourceId |-> IF requestType = "Create" THEN Undefined ELSE ExistingPolicyId,
         ResourceProperties |-> [bucket |-> "policies", key |-> "guard-rails.json",
                                 name |-> PolicyName, type |-> PolicyType,
                                 homeRegion |-> HomeRegion, region |-> region]] :
          requestType \in {"Create", "Update", "Delete"}, region \in {HomeRegion, OtherRegion}}
  /\ organization \in
       {[policies |-> policies, attachments |-> attachments] :
          policies \in {<<>>, <<OtherPolicies[1]>>, OtherPolicies \o <<ExistingPolicy>>,
                        <<ExistingPolicy>>},
          attachments \in SUBSET PolicyAttachments}
  /\ \A a \in organization.attachments :
       \E i \in DOMAIN organization.policies : organization.policies[i].Id = a.PolicyId
  /\ policyHandler = IdlePolicyHandler
  /\ detachCalls = {}
  /\ policyRequests = <<>>
  /\ SecurityLakeNotCalled
  /\ props = <<>>
  /\ vpcsInScope = <<>>
  /\ externalParameters = <<>>
  /\ run = 1
  /\ firstRun = NoRun
  /\ Start(<<>>)

NextPolicy ==
  \/ PolicyHandlerCalled
  \/ GetObjectCompletes
  \/ CreatePolicyCompletes
  \/ GetPolicyIdCompletes
  \/ ListTargetsCompletes
  \/ DetachSent
  \/ DetachCompletes
  \/ DeletePolicySent
  \/ DeletePolicyCompletes

SpecPolicy == InitPolicy /\ [][NextPolicy]_vars

(***************************************************************************)
(* Export batching                                                         *)
(***************************************************************************)
\* the parameters created in one scope, in the order of their creation
CreatedIn(scope) == FilterSeq(stringParameters, LAMBDA p : p.scope = scope)

Scopes == {stringParameters[k].scope : k \in DOMAIN stringParameters}

\* the parameters of a scope are created in queue order, numbered 1..n
CreatedInQueueOrder ==
  /\ \A scope \in Scopes : \A i \in DOMAIN CreatedIn(scope) : CreatedIn(scope)[i].index = i
  /\ (pc \in {"getVpcResourceByTag", "done"} /\ vpcIndex > 1 /\ error = NoError
        /\ vpcResourceInfo.resource # NoResource)
     => /\ Len(CreatedIn(vpcStackInfo.logicalResourceId)) = Len(ssmParameters)
        /\ \A i \in DOMAIN ssmParameters :
             /\ CreatedIn(vpcStackInfo.logicalResourceId)[i].parameterName
                  = ssmParameters[i].parameterName
             /\ CreatedIn(vpcStackInfo.logicalResourceId)[i].stringValue
                  = ssmParameters[i].stringValue

\* C1 as the specification states it: each write at position i > 5 depends on
\* the write at position i - 5 exactly, the writes at positions 1 to 5 on none
C1_DependsOnFivePositionsEarlier ==
  /\ CreatedInQueueOrder
  /\ \A k \in DOMAIN stringParameters :
       stringParameters[k].dependsOn =
         IF stringParameters[k].index > 5 THEN {stringParameters[k].index - 5} ELSE {}

\* C1 as the code has it: the writes of one container are created in queue
\* order 1..n; each write at position i > 5 declares exactly one dependency, on
\* the write at position i - (i mod 5) of the same container (the last position
\* up to i that is a multiple of 5: write 5 for writes 6 to 9, write 10 itself
\* for write 10, write 10 for writes 11 and 12); writes 1 to 5 declare none
C1_DependsOnLastMultipleOfFive ==
  /\ CreatedInQueueOrder
  /\ \A k \in DOMAIN stringParameters :
       LET i == stringParameters[k].index
       IN /\ i <= 5 => stringParameters[k].dependsOn = {}
          /\ i > 5 =>
               /\ stringParameters[k].dependsOn = {i - (i % 5)}
               /\ \E d \in 1..i : d % 5 = 0 /\ stringParameters[k].dependsOn = {d}
               /\ \A d \in stringParameters[k].dependsOn :
                    \E j \in DOMAIN stringParameters :
                      /\ stringParameters[j].scope = stringParameters[k].scope
                      /\ stringParameters[j].index = d

\* a container whose run queued 12 writes has had them created
C1_TwelveWritesCreated ==
  \E k \in DOMAIN stringParameters :
    /\ stringParameters[k].index = 12
    /\ Len(CreatedIn(stringParameters[k].scope)) = 12

(***************************************************************************)
(* Matching                                                                *)
(***************************************************************************)
\* the constructor is in the loop body for vpcsInScope[vpcIndex], its VPC matched
InBody == pc \notin {"constructor", "getVpcResourceByTag", "done", "aborted"}

IsTagged(cfnResource, kind, name) ==
  /\ cfnResource.resourceType = kind
  /\ Has(cfnResource.Properties, "Tags")
  /\ HasNameTag(cfnResource, name)

\* the positions <<stack, record>> of the records of a kind tagged name
TaggedAt(kind, name) ==
  {<<i, k>> \in UNION {{i} \X DOMAIN props.nestedStacksInfo[i].resources :
                         i \in DOMAIN props.nestedStacksInfo} :
     IsTagged(props.nestedStacksInfo[i].resources[k], kind, name)}

Before(a, b) == a[1] < b[1] \/ (a[1] = b[1] /\ a[2] < b[2])

ExcludedMessage(name) ==
  [level |-> "INFO", message |-> "Item Excluded: " \o name \o InAccountRegion]

\* the subnets the matcher was asked for have been matched
SubnetsMatched == pc = "createNatGateways"

\* C2 as the specification states it: every VPC record tagged with the name of
\* the VPC in scope is the record the matcher returned, every subnet record of
\* the VPC's nested stack tagged with a declared subnet's name is the record
\* the matcher returned, and a subnet is matched in its own nested stack only
C2_EveryTaggedRecordIsReturned ==
  /\ InBody =>
       \A at \in TaggedAt(RESOURCE_TYPE.VPC, vpcInScope.name) :
         vpcResourceInfo.resource = props.nestedStacksInfo[at[1]].resources[at[2]]
  /\ SubnetsMatched =>
       \A at \in UNION {TaggedAt(RESOURCE_TYPE.SUBNET, vpcInScope.subnets[n].name) :
                          n \in DOMAIN ListProp(vpcInScope, "subnets")} :
         at[1] = vpcResourceInfo.stackInfo =>
           \E n \in DOMAIN vpcInScope.subnets :
             /\ vpcInScope.subnets[n].name \in DOMAIN subnets
             /\ IsTagged(props.nestedStacksInfo[at[1]].resources[at[2]], RESOURCE_TYPE.SUBNET,
                         vpcInScope.subnets[n].name)
             /\ subnets[vpcInScope.subnets[n].name] =
                  props.nestedStacksInfo[at[1]].resources[at[2]].logicalResourceId

\* C2 as the code has it: the matcher returns the first record, in the order of
\* the nested stacks and of their records, that is tagged with the name (that
\* record itself when no earlier one carries the tag); a VPC in scope is
\* excluded only when no VPC record carries its name; a declared subnet is
\* matched to the first subnet record of its own VPC's nested stack tagged with
\* its name and to no record of another nested stack
C2_FirstTaggedRecordIsReturned ==
  /\ InBody =>
       \E at \in TaggedAt(RESOURCE_TYPE.VPC, vpcInScope.name) :
         /\ \A other \in TaggedAt(RESOURCE_TYPE.VPC, vpcInScope.name) : other = at \/ Before(at, other)
         /\ vpcResourceInfo.stackInfo = at[1]
         /\ vpcResourceInfo.resource = props.nestedStacksInfo[at[1]].resources[at[2]]
  /\ \A v \in DOMAIN vpcsInScope :
       Includes(logs, ExcludedMessage(vpcsInScope[v].name))
         => TaggedAt(RESOURCE_TYPE.VPC, vpcsInScope[v].name) = {}
  /\ SubnetsMatched =>
       \A n \in DOMAIN ListProp(vpcInScope, "subnets") :
         LET name == vpcInScope.subnets[n].name
             own == {at \in TaggedAt(RESOURCE_TYPE.SUBNET, name) : at[1] = vpcResourceInfo.stackInfo}
         IN IF own = {} THEN name \notin DOMAIN subnets
            ELSE /\ name \in DOMAIN subnets
                 /\ \E at \in own :
                      /\ \A other \in own : other = at \/ Before(at, other)
                      /\ subnets[name] =
                           props.nestedStacksInfo[at[1]].resources[at[2]].logicalResourceId

\* two VPCs in scope each declare a subnet Prod-A, each nested stack holds a
\* record tagged Prod-A, and both have been matched
C2_SameNameInTwoContainers ==
  /\ SubnetsMatched
  /\ vpcIndex = 2
  /\ "Prod-A" \in DOMAIN subnets
  /\ subnets["Prod-A"] = "SubnetA3"
  /\ \E k \in DOMAIN stringParameters :
       /\ stringParameters[k].parameterName = getSsmPath("SUBNET", <<"Prod", "Prod-A">>)
       /\ stringParameters[k].stringValue = "SubnetA"

(***************************************************************************)
(* Non-destructive merge                                                   *)
(***************************************************************************)
\* the templates as the run found them
Original == IncludedTemplate(props.nestedStacksInfo)

AllRecords ==
  UNION {Range(props.nestedStacksInfo[i].resources) : i \in DOMAIN props.nestedStacksInfo}

ResourceTypeOf(logicalId) ==
  (CHOOSE r \in AllRecords : r.logicalResourceId = logicalId).resourceType

\* the properties the merger of a kind assigns
Owned(resourceType) ==
  CASE resourceType = RESOURCE_TYPE.VPC ->
         {"CidrBlock", "EnableDnsHostnames", "EnableDnsSupport", "InstanceTenancy"}
    [] resourceType = RESOURCE_TYPE.SUBNET ->
         {"CidrBlock", "AvailabilityZone", "MapPublicIpOnLaunch"}
    [] resourceType = RESOURCE_TYPE.VPN_GATEWAY -> {"AmazonSideAsn"}
    [] resourceType = RESOURCE_TYPE.NAT_GATEWAY -> {"SubnetId"}
    [] resourceType = RESOURCE_TYPE.TGW_ATTACHMENT -> {"SubnetIds"}
    [] resourceType = RESOURCE_TYPE.SECURITY_GROUP -> {"SecurityGroupIngress"}
    [] resourceType = RESOURCE_TYPE.NETWORK_FIREWALL ->
         {"FirewallPolicyArn", "SubnetMappings", "VpcId"}
    [] resourceType = RESOURCE_TYPE.NETWORK_FIREWALL_POLICY -> {"FirewallPolicy"}
    [] resourceType = RESOURCE_TYPE.NETWORK_FIREWALL_RULE_GROUP -> {"RuleGroup"}
    [] resourceType = RESOURCE_TYPE.NETWORK_FIREWALL_LOGGING -> {"LoggingConfiguration"}
    [] resourceType = RESOURCE_TYPE.VPC_ENDPOINT -> {"RouteTableIds"}
    [] OTHER -> {}

Finished == pc \in {"done", "aborted"}

\* C4: a second run of the same configuration, from the original legacy
\* templates or on the templates the first run produced, ends as the first run
\* did, with the same Registry entries, the same export entries in the same
\* order, the same diagnostics and the same templates; on the templates the
\* first run produced it changes no property at any point
C4_SecondRunRepeatsFirst ==
  /\ (run = 2 /\ Finished) =>
       /\ pc = firstRun.pc
       /\ error = firstRun.error
       /\ aseaResources = firstRun.aseaResources
       /\ stringParameters = firstRun.stringParameters
       /\ logs = firstRun.logs
       /\ logGroups = firstRun.logGroups
       /\ template = firstRun.template
  /\ (run = 2 /\ firstRun.from = "produced") => template = firstRun.template

\* the second run, on the templates of a first run that added a route table
\* to an endpoint, has ended
C4_RerunAfterRouteTableAdded ==
  /\ run = 2
  /\ pc = "done"
  /\ firstRun.from = "produced"
  /\ "S3Endpoint" \in DOMAIN template
  /\ Has(template["S3Endpoint"], "RouteTableIds")
  /\ template["S3Endpoint"].RouteTableIds = <<"rtb-9", "rtb-1">>
  /\ \E i \in DOMAIN aseaResources : aseaResources[i].resourceType = "VPC_ENDPOINT"

(***************************************************************************)
(* Registry                                                                *)
(***************************************************************************)
\* C5: addAseaResource is called at most once for each pair of resource type
\* and identifier: no two entries of the Registry are the same pair
C5_AtMostOneEntryPerResource ==
  \A i, j \in DOMAIN aseaResources : i # j => aseaResources[i] # aseaResources[j]

(***************************************************************************)
(* Undeclared records                                                      *)
(***************************************************************************)
\* the identifiers put in an export entry, queued or created
Exported ==
  {ssmParameters[k].stringValue : k \in DOMAIN ssmParameters}
    \cup {stringParameters[k].stringValue : k \in DOMAIN stringParameters}

\* the configuration declares an entry of the record's kind that names the
\* record (what the matcher of the kind goes by: the Name tag, the name
\* property, the service, or the presence of the entry)
Declared(cfnResource) ==
  LET kind == cfnResource.resourceType
      Properties == cfnResource.Properties
      Items(key) == UNION {Range(ListProp(vpcsInScope[v], key)) : v \in DOMAIN vpcsInScope}
      Tagged_(names) == Has(Properties, "Tags") /\ \E name \in names : HasNameTag(cfnResource, name)
      Firewalls == Range(NetworkFirewallList("firewalls"))
  IN CASE kind = RESOURCE_TYPE.VPC ->
            Tagged_({vpcsInScope[v].name : v \in DOMAIN vpcsInScope})
       [] kind = RESOURCE_TYPE.SUBNET -> Tagged_({item.name : item \in Items("subnets")})
       [] kind = RESOURCE_TYPE.INTERNET_GATEWAY ->
            \E v \in DOMAIN vpcsInScope : vpcsInScope[v].internetGateway
       [] kind = RESOURCE_TYPE.VPN_GATEWAY ->
            \E v \in DOMAIN vpcsInScope : Has(vpcsInScope[v], "virtualPrivateGateway")
       [] kind = RESOURCE_TYPE.NAT_GATEWAY -> Tagged_({item.name : item \in Items("natGateways")})
       [] kind = RESOURCE_TYPE.SECURITY_GROUP ->
            StrProp(Properties, "GroupName") \in {item.name : item \in Items("securityGroups")}
       [] kind = RESOURCE_TYPE.TGW_ATTACHMENT ->
            Tagged_({item.name : item \in Items("transitGatewayAttachments")})
       [] kind = RESOURCE_TYPE.NETWORK_FIREWALL ->
            StrProp(Properties, "FirewallName") \in {item.name : item \in Firewalls}
       [] kind = RESOURCE_TYPE.NETWORK_FIREWALL_POLICY ->
            StrProp(Properties, "FirewallPolicyName")
              \in {item.name : item \in Range(NetworkFirewallList("policies"))}
       [] kind = RESOURCE_TYPE.NETWORK_FIREWALL_RULE_GROUP ->
            StrProp(Properties, "RuleGroupName")
              \in {item.name : item \in Range(NetworkFirewallList("rules"))}
       [] kind = RESOURCE_TYPE.NETWORK_FIREWALL_LOGGING ->
            \E item \in Firewalls : Has(item, "loggingConfiguration")
       [] kind = RESOURCE_TYPE.VPC_ENDPOINT ->
            \E v \in DOMAIN vpcsInScope :
              /\ Has(vpcsInScope[v], "gatewayEndpoints")
              /\ \E item \in Range(vpcsInScope[v].gatewayEndpoints.endpoints) :
                   LastOf(Properties.ServiceName.FnJoin[2]) = "." \o item.service
       [] OTHER -> FALSE

\* C6: every legacy record that a property was assigned to, or whose
\* identifier is in an export entry, is a record the configuration declares an
\* entry for; a record the configuration declares nothing for (an internet
\* gateway, a firewall logging configuration, an inline rule list) has the
\* properties it had before the run and is in no export entry
C6_UndeclaredRecordsUntouched ==
  \A cfnResource \in AllRecords :
    (\/ template[cfnResource.logicalResourceId] # Original[cfnResource.logicalResourceId]
     \/ cfnResource.logicalResourceId \in Exported)
      => Declared(cfnResource)

(***************************************************************************)
(* Scenario: network and subnet import                                     *)
(***************************************************************************)
\* a legacy network tagged Prod with one subnet tagged Prod-A; the target
\* declares the network Prod with 10.1.0.0/16 as its first CIDR and the subnet
\* Prod-A, 10.1.1.0/24, zone letter a, in us-east-1, and nothing else
ScenarioNetworkAndSubnet ==
  /\ props.stackInfo.phase = ASEA_PHASE_NUMBER
  /\ Len(props.nestedStacksInfo) = 1
  /\ props.nestedStacksInfo[1].resources =
       <<VpcRecord("VpcProd", "Prod"), SubnetRecord("SubnetA", "Prod-A", "VpcProd")>>
  /\ Len(vpcsInScope) = 1
  /\ DOMAIN vpcsInScope[1] = DOMAIN VpcConfig("Prod", <<"10.1.0.0/16">>, [subnets |-> <<>>])
  /\ vpcsInScope[1].name = "Prod"
  /\ vpcsInScope[1].region = "us-east-1"
  /\ vpcsInScope[1].cidrs[1] = "10.1.0.0/16"
  /\ ~vpcsInScope[1].internetGateway
  /\ vpcsInScope[1].subnets = <<SubnetConfig("Prod-A", "10.1.1.0/24", "a")>>

\* C7: in the scenario the run does not abort, and when it is done the network
\* record has the first declared CIDR 10.1.0.0/16, the subnet record has the
\* CIDR 10.1.1.0/24 and the availability zone us-east-1a, the Registry holds
\* exactly two entries (the subnet, the network) and exactly two export entries
\* were created, carrying the identifiers of the two records
C7_NetworkAndSubnetImported ==
  ScenarioNetworkAndSubnet =>
    /\ pc # "aborted"
    /\ pc = "done" =>
         /\ template["VpcProd"].CidrBlock = "10.1.0.0/16"
         /\ template["SubnetA"].CidrBlock = "10.1.1.0/24"
         /\ template["SubnetA"].AvailabilityZone = "us-east-1a"
         /\ Len(aseaResources) = 2
         /\ Range(aseaResources) =
              {[resourceType |-> "EC2_VPC", resourceIdentifier |-> "Prod"],
               [resourceType |-> "EC2_SUBNET", resourceIdentifier |-> "Prod/Prod-A"]}
         /\ Len(stringParameters) = 2
         /\ {stringParameters[k].stringValue : k \in DOMAIN stringParameters}
              = {"VpcProd", "SubnetA"}

\* the run of the scenario is done, the target declaring a second CIDR after
\* 10.1.0.0/16
C7_ScenarioDone ==
  /\ ScenarioNetworkAndSubnet
  /\ pc = "done"
  /\ vpcsInScope[1].cidrs = <<"10.1.0.0/16", "10.2.0.0/16">>
  /\ template["SubnetA"].AvailabilityZone # Original["SubnetA"].AvailabilityZone

(***************************************************************************)
(* Scenario: NAT gateway in a missing subnet                               *)
(***************************************************************************)
\* the NAT gateways the VPC in scope declares in a subnet that no legacy
\* record carries and the target does not declare
MissingSubnetGateways ==
  IF vpcIndex \notin DOMAIN vpcsInScope THEN {}
  ELSE {natGatewayItem \in Range(ListProp(vpcInScope, "natGateways")) :
          /\ \A n \in DOMAIN ListProp(vpcInScope, "subnets") :
               vpcInScope.subnets[n].name # natGatewayItem.subnet
          /\ TaggedAt(RESOURCE_TYPE.SUBNET, natGatewayItem.subnet) = {}}

\* createNatGateways has returned or has raised
AfterNatGateways == pc \in {"createSecurityGroups", "aborted"}

\* C8: when the VPC in scope declares a NAT gateway in a missing subnet,
\* createNatGateways does not raise, the run goes on to the security groups
\* with every NAT gateway record as the run found it, and the diagnostics hold
\* a warning or an "Item Excluded" entry for the gateway, whether or not a
\* legacy NAT gateway record carries the declared name
C8_MissingSubnetIsExcluded ==
  \A natGatewayItem \in MissingSubnetGateways :
    AfterNatGateways =>
      /\ pc = "createSecurityGroups"
      /\ error = NoError
      /\ \A cfnResource \in AllRecords :
           cfnResource.resourceType = RESOURCE_TYPE.NAT_GATEWAY =>
             template[cfnResource.logicalResourceId] = Original[cfnResource.logicalResourceId]
      /\ \E k \in DOMAIN logs :
           \/ logs[k].level = "WARN"
           \/ logs[k] = ExcludedMessage(natGatewayItem.name)

(***************************************************************************)
(* Rule classification                                                     *)
(***************************************************************************)
\* the legacy logical ids of the declared groups that a record of the stack
\* carries the name of
GroupIds(vpcItem, stackInfo) ==
  LET names == {item.name : item \in Range(ListProp(vpcItem, "securityGroups"))}
      RecordOf(name) == findResourceByName(stackInfo.resources, "GroupName", name)
  IN [name \in {n \in names : RecordOf(n) # NoResource} |-> RecordOf(name).logicalResourceId]

\* a legacy ingress rule of the group logicalId with the protocol, the ports
\* and the source of a target rule
SameIngressRule(cfnResource, logicalId, rule) ==
  /\ cfnResource.resourceType = RESOURCE_TYPE.SECURITY_GROUP_INGRESS
  /\ RefProp(cfnResource.Properties, "GroupId") = logicalId
  /\ StrProp(cfnResource.Properties, "IpProtocol") = rule.protocol
  /\ NumProp(cfnResource.Properties, "FromPort") = rule.from
  /\ NumProp(cfnResource.Properties, "ToPort") = rule.to
  /\ \/ StrProp(cfnResource.Properties, "CidrIp") = rule.sourceValue
     \/ RefProp(cfnResource.Properties, "SourceSecurityGroupId") = rule.sourceValue

Reverse(list) == [i \in DOMAIN list |-> list[Len(list) + 1 - i]]

\* the Registry holds the ingress rule of a group as an existing one
IngressRegistered(vpcItem, securityGroupItem, rule) ==
  Includes(aseaResources,
           [resourceType |-> "EC2_SECURITY_GROUP_INGRESS",
            resourceIdentifier |-> RuleIdentifier(vpcItem, securityGroupItem, "ingress", rule)])

\* createSecurityGroups has returned for the VPC in scope
AfterSecurityGroups ==
  pc \in {"createTransitGatewayAttachments", "createTransitGatewayRouteTablePropagation",
          "createTransitGatewayRouteTableAssociation", "createNetworkFirewallResources",
          "gatewayEndpoints", "addVpc", "createSsmParameters"}

\* C9: for every declared security group that a legacy record carries the
\* name of and every target ingress rule of it: the rule is matched by the
\* comparison of the code exactly when a legacy ingress rule of that group has
\* its protocol, its from-port and to-port and its source (the CIDR, or the
\* legacy logical id of the source group), the same for the legacy rules in
\* the opposite order, and never when its ports differ from every legacy
\* rule's; and once createSecurityGroups has returned, the rule is classified
\* as existing (it is in the Registry as an existing ingress rule) if and only
\* if such a legacy rule exists
C9_ExistingIffSameLegacyRule ==
  InBody =>
    \A securityGroupItem \in Range(ListProp(vpcInScope, "securityGroups")) :
      securityGroupItem.name \in DOMAIN GroupIds(vpcInScope, vpcStackInfo) =>
        LET securityGroupsMap == GroupIds(vpcInScope, vpcStackInfo)
            logicalId == securityGroupsMap[securityGroupItem.name]
            ingressRules ==
              filterResourcesByRef(
                filterResourcesByType(vpcStackInfo.resources, RESOURCE_TYPE.SECURITY_GROUP_INGRESS),
                "GroupId", logicalId)
            rules == ProcessRuleItems(securityGroupItem.inboundRules, securityGroupsMap)
            Same(rule) == \E cfnResource \in AllRecords : SameIngressRule(cfnResource, logicalId, rule)
        IN \A i \in DOMAIN rules :
             /\ ExistingIngressRuleEntry(ingressRules, rules[i]) <=> Same(rules[i])
             /\ ExistingIngressRuleEntry(Reverse(ingressRules), rules[i])
                  <=> ExistingIngressRuleEntry(ingressRules, rules[i])
             /\ (\A k \in DOMAIN ingressRules :
                   \/ NumProp(ingressRules[k].Properties, "FromPort") # rules[i].from
                   \/ NumProp(ingressRules[k].Properties, "ToPort") # rules[i].to)
                  => ~ExistingIngressRuleEntry(ingressRules, rules[i])
             /\ IngressRegistered(vpcInScope, securityGroupItem, rules[i]) => Same(rules[i])
             /\ (AfterSecurityGroups /\ Same(rules[i]))
                  => IngressRegistered(vpcInScope, securityGroupItem, rules[i])

(***************************************************************************)
(* Fatal dependency                                                        *)
(***************************************************************************)
\* the firewalls the configuration declares for the VPC in scope
DeclaredFirewalls ==
  {item \in Range(NetworkFirewallList("firewalls")) : item.vpc = vpcInScope.name}

\* the legacy firewall records of the VPC's stack that carry the name of item
FirewallRecordOf(item) ==
  {cfnResource \in Range(vpcStackInfo.resources) :
     /\ cfnResource.resourceType = RESOURCE_TYPE.NETWORK_FIREWALL
     /\ StrProp(cfnResource.Properties, "FirewallName") = item.name}

MatchedFirewalls == {item \in DeclaredFirewalls : FirewallRecordOf(item) # {}}

\* the policy imported in this run: the records of the stack's firewall
\* policies that the configuration declares a policy with the name of
ImportedPolicy ==
  {cfnResource \in Range(vpcStackInfo.resources) :
     /\ cfnResource.resourceType = RESOURCE_TYPE.NETWORK_FIREWALL_POLICY
     /\ \E policyItem \in Range(NetworkFirewallList("policies")) :
          policyItem.name = cfnResource.Properties.FirewallPolicyName}

\* the values the two sources yield for the policy of a firewall: the
\* imported policy of that name, else the value exported earlier
PolicyReference(item) ==
  LET imported == {cfnResource \in ImportedPolicy :
                     cfnResource.Properties.FirewallPolicyName = item.firewallPolicy}
      key == getSsmPath("NFW_POLICY", <<item.firewallPolicy>>)
  IN IF imported # {} THEN {cfnResource.logicalResourceId : cfnResource \in imported}
     ELSE IF key \in DOMAIN externalParameters THEN {externalParameters[key]}
     ELSE {}

\* createNetworkFirewallResources has returned or has raised for a matched VPC
AfterNetworkFirewall ==
  /\ pc \in {"gatewayEndpoints", "aborted"}
  /\ vpcIndex \in DOMAIN vpcsInScope
  /\ vpcResourceInfo.resource # NoResource
  /\ DeclaredFirewalls # {}

\* C10: once the firewalls of the VPC in scope have been handled, the run has
\* aborted with the error that names a policy if and only if a declared
\* firewall matched to a legacy record has a policy that neither the import
\* of this run nor the earlier exports yield a value for, and the error names
\* such a policy; when the run goes on, every matched firewall refers to the
\* policy imported in this run when it has the declared name and else to the
\* value exported earlier; and with no declared firewall matched the run has
\* not aborted
C10_AbortIffPolicyUnresolved ==
  AfterNetworkFirewall =>
    LET unresolved == {item \in MatchedFirewalls : PolicyReference(item) = {}}
    IN /\ unresolved # {}
            <=> (pc = "aborted"
                 /\ \E item \in MatchedFirewalls : error = PolicyNotFound(item.firewallPolicy))
       /\ \A item \in DeclaredFirewalls :
            error = PolicyNotFound(item.firewallPolicy) =>
              \E other \in unresolved : other.firewallPolicy = item.firewallPolicy
       /\ pc = "gatewayEndpoints" =>
            \A item \in MatchedFirewalls : \A cfnResource \in FirewallRecordOf(item) :
              template[cfnResource.logicalResourceId].FirewallPolicyArn \in PolicyReference(item)
       /\ MatchedFirewalls = {} => pc # "aborted"

\* the run has aborted on a firewall policy that cannot be resolved
FatalDependency ==
  /\ pc = "aborted"
  /\ \E item \in Range(NetworkFirewallList("firewalls")) :
       error = PolicyNotFound(item.firewallPolicy)

\* C11: when the run has aborted on the fatal dependency, nothing of it
\* remains: the Registry holds no entry, no export entry was created, and
\* every legacy record has the properties it had before the run
C11_AbortLeavesNothing ==
  FatalDependency =>
    /\ aseaResources = <<>>
    /\ stringParameters = <<>>
    /\ \A logicalId \in DOMAIN Original : template[logicalId] = Original[logicalId]

(***************************************************************************)
(* Additive merge of the rules                                             *)
(***************************************************************************)
\* the rule list a security group holds in its own properties
LiveIngress(properties) == ListProp(properties, "SecurityGroupIngress")

\* C12: once createSecurityGroups has returned, for every declared security
\* group that a legacy record carries the name of: every rule the group's
\* list held before the run is in the list; when every target ingress rule
\* has a legacy rule with its protocol, ports and source the group is as the
\* run found it; and every target rule that was classified and has no such
\* legacy rule is in the list with its protocol
C12_MergeIsAdditive ==
  (InBody /\ AfterSecurityGroups) =>
    \A securityGroupItem \in Range(ListProp(vpcInScope, "securityGroups")) :
      securityGroupItem.name \in DOMAIN GroupIds(vpcInScope, vpcStackInfo) =>
        LET securityGroupsMap == GroupIds(vpcInScope, vpcStackInfo)
            logicalId == securityGroupsMap[securityGroupItem.name]
            rules == ProcessRuleItems(securityGroupItem.inboundRules, securityGroupsMap)
            Same(rule) == \E cfnResource \in AllRecords : SameIngressRule(cfnResource, logicalId, rule)
            before == LiveIngress(Original[logicalId])
            after == LiveIngress(template[logicalId])
        IN /\ \A k \in DOMAIN before : Includes(after, before[k])
           /\ (\A i \in DOMAIN rules : Same(rules[i])) => template[logicalId] = Original[logicalId]
           /\ \A i \in DOMAIN rules :
                (securityGroupItem.outboundRules # <<>> /\ ~Same(rules[i])) =>
                  \E k \in DOMAIN after : after[k].ipProtocol = rules[i].protocol

(***************************************************************************)
(* Exceptions                                                              *)
(***************************************************************************)
\* C13: no matcher and no merger raises: at every point of a run either no
\* exception was raised, or the run has aborted on the fatal dependency (a
\* firewall policy that cannot be resolved)
C13_OnlyFatalDependencyRaises ==
  /\ error # NoError => FatalDependency
  /\ pc = "aborted" => FatalDependency

(***************************************************************************)
(* Unmatched optional resources                                            *)
(***************************************************************************)
\* the diagnostics hold a warning, or the "Item Excluded" entry of the name
Diagnosed(name) ==
  \E k \in DOMAIN logs : logs[k].level = "WARN" \/ logs[k] = ExcludedMessage(name)

\* an export entry was created under the parameter name
ExportedUnder(parameterName) ==
  \E k \in DOMAIN stringParameters : stringParameters[k].parameterName = parameterName

\* the declared resources of a VPC in scope that no legacy record matches, as
\* pairs of the name to diagnose and the parameter name of the export
UnmatchedItems(vpcItem) ==
  LET found == getVpcResourceByTag(props.nestedStacksInfo, vpcItem.name)
      stack == props.nestedStacksInfo[found.stackInfo]
      OfType(resourceType) == filterResourcesByType(stack.resources, resourceType)
      Items(key) == Range(ListProp(vpcItem, key))
  IN IF found.resource = NoResource
     THEN {<<vpcItem.name, getSsmPath("VPC", <<vpcItem.name>>)>>}
     ELSE {<<item.name, getSsmPath("SUBNET", <<vpcItem.name, item.name>>)>> :
             item \in {i \in Items("subnets") : getSubnetResourceByTag(i.name, stack) = NoResource}}
          \cup {<<item.name, getSsmPath("NAT_GW", <<vpcItem.name, item.name>>)>> :
                  item \in {i \in Items("natGateways") :
                              findResourceByTag(OfType(RESOURCE_TYPE.NAT_GATEWAY), i.name) = NoResource}}
          \cup {<<item.name, getSsmPath("SECURITY_GROUP", <<vpcItem.name, item.name>>)>> :
                  item \in {i \in Items("securityGroups") :
                              findResourceByName(stack.resources, "GroupName", i.name) = NoResource}}
          \cup {<<item.name, getSsmPath("TGW_ATTACHMENT", <<vpcItem.name, item.name>>)>> :
                  item \in {i \in Items("transitGatewayAttachments") :
                              findResourceByTag(OfType(RESOURCE_TYPE.TGW_ATTACHMENT), i.name) = NoResource}}
          \cup {<<item.service, getSsmPath("VPC_ENDPOINT", <<vpcItem.name, item.service>>)>> :
                  item \in {i \in (IF Has(vpcItem, "gatewayEndpoints")
                                   THEN Range(vpcItem.gatewayEndpoints.endpoints) ELSE {}) :
                              \A cfnResource \in Range(OfType(RESOURCE_TYPE.VPC_ENDPOINT)) :
                                LastOf(cfnResource.Properties.ServiceName.FnJoin[2]) # "." \o i.service}}

\* C14: when the run is done, every declared network, subnet, NAT gateway,
\* security group, attachment and endpoint that no legacy record matches has a
\* diagnostic (a warning, or the "Item Excluded" entry of its name) and no
\* export entry
C14_UnmatchedIsExcludedWithWarning ==
  pc = "done" =>
    \A v \in DOMAIN vpcsInScope :
      props.stackInfo.phase = ASEA_PHASE_NUMBER =>
        \A unmatched \in UnmatchedItems(vpcsInScope[v]) :
          /\ Diagnosed(unmatched[1])
          /\ ~ExportedUnder(unmatched[2])

(***************************************************************************)
(* Route-table propagation and association                                 *)
(***************************************************************************)
\* both route-table mergers have returned for the VPC in scope
AfterRouteTableEntries ==
  /\ pc = "createNetworkFirewallResources"
  /\ vpcIndex \in DOMAIN vpcsInScope

\* the stack of the VPC holds a record of the type whose attachment reference
\* is the legacy identifier of the attachment matched in this run and whose
\* route table is the resolved identifier of the route table
LegacyRouteTableRecord(recordType, tgwAttachmentItem, routeTableItem) ==
  /\ tgwAttachmentItem.name \in DOMAIN tgwAttachmentMap
  /\ getTgwRouteTableId(routeTableItem) # Undefined
  /\ \E r \in Range(vpcStackInfo.resources) :
       /\ r.resourceType = recordType
       /\ r.Properties.TransitGatewayAttachmentId.Ref =
            tgwAttachmentMap[tgwAttachmentItem.name]
       /\ r.Properties.TransitGatewayRouteTableId =
            getTgwRouteTableId(routeTableItem)

RouteTableEntryRegistered(aseaType, tgwAttachmentItem, routeTableItem) ==
  \E k \in DOMAIN aseaResources :
    /\ aseaResources[k].resourceType = aseaType
    /\ aseaResources[k].resourceIdentifier =
         "network/Main/" \o tgwAttachmentItem.name \o "/" \o routeTableItem

\* the declared pairs (record type, Registry type, attachment, route table)
RouteTablePairs ==
  LET attachments == Range(ListProp(vpcsInScope[vpcIndex], "transitGatewayAttachments"))
  IN {<<RESOURCE_TYPE.TGW_PROPAGATION, "TRANSIT_GATEWAY_PROPAGATION", a, r>> :
        <<a, r>> \in {x \in attachments \X {"core", "shared"} :
                        x[2] \in Range(ListProp(x[1], "routeTablePropagations"))}}
     \cup {<<RESOURCE_TYPE.TGW_ASSOCIATION, "TRANSIT_GATEWAY_ASSOCIATION", a, r>> :
        <<a, r>> \in {x \in attachments \X {"core", "shared"} :
                        x[2] \in Range(ListProp(x[1], "routeTableAssociations"))}}

\* an entry of a pair is in the Registry only when the legacy record exists
RouteTableEntryOnlyFromRecord ==
  AfterRouteTableEntries =>
    \A pair \in RouteTablePairs :
      RouteTableEntryRegistered(pair[2], pair[3], pair[4])
        => LegacyRouteTableRecord(pair[1], pair[3], pair[4])

\* C15: once both route-table mergers have returned, a declared pair
\* (attachment, route table) has a Registry entry only when the stack holds a
\* propagation (association) record with the legacy identifier of the matched
\* attachment and the resolved identifier of the route table; a pair without
\* such a record has no entry and the diagnostics hold a warning
C15_RouteTableEntryOrExcluded ==
  AfterRouteTableEntries =>
    \A pair \in RouteTablePairs :
      IF LegacyRouteTableRecord(pair[1], pair[3], pair[4])
      THEN TRUE
      ELSE /\ ~RouteTableEntryRegistered(pair[2], pair[3], pair[4])
           /\ \E k \in DOMAIN logs : logs[k].level = "WARN"

(***************************************************************************)
(* Order of the mergers                                                    *)
(***************************************************************************)
\* the Registry types a step of the loop body may add
StepTypes(step) ==
  CASE step = "setupInternetGateway" -> {"EC2_IGW"}
    [] step = "setupVpnGateway" -> {"EC2_VPN_GW"}
    [] step = "setVpcAttributes" -> {"EC2_VPC_CIDR"}
    [] step = "createSubnets" -> {"EC2_SUBNET"}
    [] step = "createNatGateways" -> {"NAT_GATEWAY"}
    [] step = "createSecurityGroups" ->
         {"EC2_SECURITY_GROUP", "EC2_SECURITY_GROUP_INGRESS", "EC2_SECURITY_GROUP_EGRESS"}
    [] step = "createTransitGatewayAttachments" -> {"TRANSIT_GATEWAY_ATTACHMENT"}
    [] step = "createTransitGatewayRouteTablePropagation" -> {"TRANSIT_GATEWAY_PROPAGATION"}
    [] step = "createTransitGatewayRouteTableAssociation" -> {"TRANSIT_GATEWAY_ASSOCIATION"}
    [] step = "createNetworkFirewallResources" -> {"NFW_RULE_GROUP", "NFW_POLICY", "NFW"}
    [] step = "gatewayEndpoints" -> {"VPC_ENDPOINT"}
    [] step = "addVpc" -> {"EC2_VPC"}
    [] OTHER -> {}

\* the order of the steps in the loop body
StepAfter(step) ==
  CASE step = "getVpcResourceByTag" -> "setupInternetGateway"
    [] step = "setupInternetGateway" -> "setupVpnGateway"
    [] step = "setupVpnGateway" -> "setVpcAttributes"
    [] step = "setVpcAttributes" -> "createSubnets"
    [] step = "createSubnets" -> "createNatGateways"
    [] step = "createNatGateways" -> "createSecurityGroups"
    [] step = "createSecurityGroups" -> "createTransitGatewayAttachments"
    [] step = "createTransitGatewayAttachments" -> "createTransitGatewayRouteTablePropagation"
    [] step = "createTransitGatewayRouteTablePropagation" -> "createTransitGatewayRouteTableAssociation"
    [] step = "createTransitGatewayRouteTableAssociation" -> "createNetworkFirewallResources"
    [] step = "createNetworkFirewallResources" -> "gatewayEndpoints"
    [] step = "gatewayEndpoints" -> "addVpc"
    [] step = "addVpc" -> "createSsmParameters"
    [] OTHER -> "getVpcResourceByTag"

\* the place of a Registry type in the order network, subnet, gateway and NAT
\* gateway, security rules, attachment, propagation and association,
\* inspection policy, endpoint
ClaimedRank(type) ==
  CASE type \in {"EC2_VPC", "EC2_VPC_CIDR"} -> 1
    [] type = "EC2_SUBNET" -> 2
    [] type \in {"EC2_IGW", "EC2_VPN_GW", "NAT_GATEWAY"} -> 3
    [] type \in StepTypes("createSecurityGroups") -> 4
    [] type = "TRANSIT_GATEWAY_ATTACHMENT" -> 5
    [] type \in {"TRANSIT_GATEWAY_PROPAGATION", "TRANSIT_GATEWAY_ASSOCIATION"} -> 6
    [] type \in StepTypes("createNetworkFirewallResources") -> 7
    [] OTHER -> 8

\* one step of the run: the step at pc appends Registry entries of its own
\* types only, is followed by the next step of the loop body (or the run
\* aborts, or the body of the next VPC begins, or the run is done), and export
\* entries are created by createSsmParameters only
StepsInOrder ==
  /\ Len(aseaResources') >= Len(aseaResources)
  /\ \A k \in DOMAIN aseaResources' :
       IF k <= Len(aseaResources) THEN aseaResources'[k] = aseaResources[k]
       ELSE aseaResources'[k].resourceType \in StepTypes(pc)
  /\ \/ pc' \in {StepAfter(pc), "aborted"}
     \/ pc \in {"constructor", "getVpcResourceByTag", "createSsmParameters"}
          /\ pc' \in {"getVpcResourceByTag", "done"}
  /\ stringParameters' # stringParameters => pc = "createSsmParameters"

\* C16 (as the code has it): within one VPC the steps run in the order
\* internet gateway, VPN gateway, VPC attributes and additional CIDRs, subnets,
\* NAT gateways, security groups, attachments, propagations, associations,
\* network firewall, gateway endpoints, the Registry entry and export of the
\* VPC itself, and last the creation of the export entries; a step adds
\* Registry entries of its own kind only
C16_StepsRunInCodeOrder == [][StepsInOrder]_vars

\* a run that registered a subnet and, after it, the VPC of the subnet
C16_SubnetThenVpc ==
  /\ pc = "done"
  /\ \E j, k \in DOMAIN aseaResources :
       /\ j < k
       /\ aseaResources[j].resourceType = "EC2_SUBNET"
       /\ aseaResources[k].resourceType = "EC2_VPC"

\* C16 (as stated): in a run with one VPC in scope the Registry entries follow
\* the order network, subnet, gateway and NAT gateway, security rules,
\* attachment, propagation and association, inspection policy, endpoint
C16_RegistryInClaimedOrder ==
  Len(vpcsInScope) = 1 =>
    \A j, k \in DOMAIN aseaResources :
      j < k => ClaimedRank(aseaResources[j].resourceType)
                 <= ClaimedRank(aseaResources[k].resourceType)

(***************************************************************************)
(* Endpoint merge                                                          *)
(***************************************************************************)
\* gatewayEndpoints has returned for the VPC in scope
AfterGatewayEndpoints ==
  /\ pc = "addVpc"
  /\ vpcIndex \in DOMAIN vpcsInScope

\* the legacy endpoint records of the services
EndpointOf(service) ==
  {r \in Range(vpcStackInfo.resources) :
     /\ r.resourceType = RESOURCE_TYPE.VPC_ENDPOINT
     /\ LastOf(r.Properties.ServiceName.FnJoin[2]) = "." \o service}

\* the declared gateway endpoints that a legacy record matches
MatchedEndpoints ==
  {service \in {"s3", "dynamodb"} :
     /\ Has(vpcsInScope[vpcIndex], "gatewayEndpoints")
     /\ \E i \in DOMAIN vpcsInScope[vpcIndex].gatewayEndpoints.endpoints :
          vpcsInScope[vpcIndex].gatewayEndpoints.endpoints[i].service = service
     /\ EndpointOf(service) # {}}

\* the previously exported identifiers of the declared route tables that have a
\* route targeting the service
ExportedRouteTablesFor(service) ==
  LET vpcItem == vpcsInScope[vpcIndex]
  IN {externalParameters[getSsmPath("ROUTE_TABLE", <<vpcItem.name, routeTableItem.name>>)] :
        routeTableItem \in
          {rt \in Range(ListProp(vpcItem, "routeTables")) :
             /\ getSsmPath("ROUTE_TABLE", <<vpcItem.name, rt.name>>) \in DOMAIN externalParameters
             /\ \E i \in DOMAIN ListProp(rt, "routes") : rt.routes[i].target = service}}

OccurrencesIn(list, x) == Cardinality({k \in DOMAIN list : list[k] = x})

\* C17: once gatewayEndpoints has returned, the route-table list of every
\* matched gateway endpoint holds each exported identifier of a declared route
\* table with a route to its service exactly once and every identifier the
\* legacy list held; an endpoint whose legacy record had no list holds exactly
\* the identifiers accumulated for its service
C17_EndpointHoldsAccumulatedIds ==
  AfterGatewayEndpoints =>
    \A service \in MatchedEndpoints :
      \A r \in EndpointOf(service) :
        LET before == ListProp(r.Properties, "RouteTableIds")
            after == ListProp(template[r.logicalResourceId], "RouteTableIds")
        IN /\ \A id \in ExportedRouteTablesFor(service) : OccurrencesIn(after, id) = 1
           /\ Range(before) \subseteq Range(after)
           /\ ~Has(r.Properties, "RouteTableIds")
                => Range(after) = ExportedRouteTablesFor(service)

(***************************************************************************)
(* NAT gateway subnet resolution                                           *)
(***************************************************************************)
\* the step of createNatGateways leaves every matched NAT gateway with the
\* identifier of its declared subnet as this run produced it, else with the
\* identifier exported earlier under the key of the VPC and the subnet, else
\* with the reference it had
NatGatewaySubnetResolved ==
  (pc = "createNatGateways" /\ pc' # pc) =>
    \A natGatewayItem \in Range(ListProp(vpcInScope, "natGateways")) :
      LET natGatewayResource ==
            findResourceByTag(
              filterResourcesByType(vpcStackInfo.resources, RESOURCE_TYPE.NAT_GATEWAY),
              natGatewayItem.name)
          natGateway == natGatewayResource.logicalResourceId
          key == getSsmPath("SUBNET", <<vpcInScope.name, natGatewayItem.subnet>>)
      IN natGatewayResource # NoResource =>
           template'[natGateway].SubnetId =
             IF natGatewayItem.subnet \in DOMAIN subnets THEN subnets[natGatewayItem.subnet]
             ELSE IF key \in DOMAIN externalParameters THEN externalParameters[key]
             ELSE template[natGateway].SubnetId

\* C18: createNatGateways leaves a matched NAT gateway declared in subnet S of
\* VPC V with the identifier of S produced in this run when S was imported in
\* this run, otherwise with the identifier exported earlier under the key of
\* (V, S) when there is one, otherwise with its reference unchanged
C18_NatGatewaySubnetResolution == [][NatGatewaySubnetResolved]_vars

(***************************************************************************)
(* Security Lake: the decision of set-organization-admin                   *)
(***************************************************************************)
\* the register requests for the account that were sent
RegisterRequestsSent(accountId) ==
  Cardinality({k \in DOMAIN securityLakeRequests :
                 /\ securityLakeRequests[k].command = "RegisterDataLakeDelegatedAdministrator"
                 /\ securityLakeRequests[k].accountId = accountId})

\* the register requests for the account that were sent or are on their way
RegisterRequestsMade(accountId) ==
  RegisterRequestsSent(accountId)
    + Cardinality({call \in floating :
                     /\ call.command = "RegisterDataLakeDelegatedAdministrator"
                     /\ call.accountId = accountId})

\* the delegated administrator of Security Lake that Organizations lists
ListedAdmin ==
  IF delegatedAdministrators[RegisterServicePrincipal] = <<>> THEN Undefined
  ELSE delegatedAdministrators[RegisterServicePrincipal][1]

C20_DryRunChangesNothing ==
  (DryRun /\ Len(delegatedAdministrators[RegisterServicePrincipal]) <= 1) =>
    LET A == lakeProps.configuration.delegatedAdminAccount
        C == ListedAdmin
        validatedSet == "[DRY-RUN]: AcceleratorSecurityLake SetOrganizationAdmin operation validated successfully (no actual changes were made).\nValidation: Successful\nStatus: "
        validatedDeregister == "[DRY-RUN]: Amazon Security Lake de-register organization admin operation validated successfully (no actual changes were made).\nValidation: Successful\nStatus: "
    IN /\ securityLakeRequests = <<>>
       /\ floating = {}
       /\ registerHandler.pc = "returned" =>
            registerHandler.status =
              CASE C = Undefined ->
                     validatedSet \o "Account " \o A
                       \o " will be registered as Amazon Security Lake Delegated Admin"
                [] C = A ->
                     validatedSet \o "Operation found current admin account is already " \o A
                       \o ", set organization admin operation will be skipped."
                [] OTHER ->
                     validatedSet
                       \o "Amazon Security Lake delegated admin account will be changed from "
                       \o C \o " to " \o A \o "."
       /\ deregisterHandler.pc = "returned" =>
            deregisterHandler.status =
              IF C = Undefined
              THEN validatedDeregister
                     \o "Operation found Amazon Security Lake delegated administrator not set, de-registration will be skipped."
              ELSE validatedDeregister
                     \o "Amazon Security Lake Delegated admin account will be de-registered."

(***************************************************************************)
(* Security Lake: the decision of the deregistration                       *)
(***************************************************************************)
\* the deregister requests that were sent or are on their way
DeregisterRequestsMade ==
  Cardinality({k \in DOMAIN securityLakeRequests :
                 securityLakeRequests[k].command = "DeregisterDataLakeDelegatedAdministrator"})
    + Cardinality({call \in floating :
                     call.command = "DeregisterDataLakeDelegatedAdministrator"})

\* Organizations still lists what it listed when the operation was called
NoRequestSucceeded ==
  \A k \in DOMAIN securityLakeRequests : securityLakeRequests[k].outcome # "succeeded"

\* C21: a DeregisterOrganizationAdmin.handler that was called as the operation
\* without dry run and returned has made exactly one deregister request and
\* reports the delegated admin de-registered when Organizations lists a
\* delegated admin of Security Lake, and has made no request and reports the
\* de-registration skipped when it lists none
C21_DeregistrationDecision ==
  (/\ lakeProps.operation = "deregister-organization-admin"
   /\ deregisterHandler.pc = "returned"
   /\ ~DryRun
   /\ NoRequestSucceeded
   /\ Len(delegatedAdministrators[RegisterServicePrincipal]) <= 1) =>
    LET completed == "Amazon Security Lake de-register Organization admin operation completed successfully.\nStatus: "
    IN IF ListedAdmin # Undefined
       THEN /\ DeregisterRequestsMade = 1
            /\ deregisterHandler.status =
                 completed \o "Amazon Security Lake Delegated admin account de-registered."
       ELSE /\ DeregisterRequestsMade = 0
            /\ deregisterHandler.status =
                 completed
                   \o "Operation found Amazon Security Lake delegated administrator not set, de-registration skipped."

(***************************************************************************)
(* Security Lake: the order of a change of the delegated admin             *)
(***************************************************************************)
\* RegisterOrganizationAdmin.handler found another admin than the configured
\* account, in a call without dry run
ChangeOfAdmin ==
  /\ ~DryRun
  /\ registerHandler.action = "UPDATE_DELEGATED_ADMIN"

\* C22: in a change of the delegated admin without dry run, the handler of the
\* deregistration finds the admin the handler of the registration found, a
\* register request is sent only after a deregister request was sent and has
\* succeeded, and the handler of the registration has returned only when both
\* requests have completed
C22_DeregisterThenRegister ==
  ChangeOfAdmin =>
    /\ deregisterHandler.pc = "returned"
         => deregisterHandler.currentAdmin = registerHandler.currentAdmin
    /\ \A k \in DOMAIN securityLakeRequests :
         securityLakeRequests[k].command = "RegisterDataLakeDelegatedAdministrator" =>
           \E j \in 1..(k - 1) :
             /\ securityLakeRequests[j].command = "DeregisterDataLakeDelegatedAdministrator"
             /\ securityLakeRequests[j].outcome = "succeeded"
    /\ registerHandler.pc = "returned" =>
         /\ floating = {}
         /\ Len(securityLakeRequests) = 2
         /\ \A k \in DOMAIN securityLakeRequests : securityLakeRequests[k].outcome # "pending"

(***************************************************************************)
(* Rule classification: egress                                             *)
(***************************************************************************)
\* a legacy egress rule of the group logicalId with the protocol, the ports
\* and the source value of a target rule
SameEgressRule(cfnResource, logicalId, rule) ==
  /\ cfnResource.resourceType = RESOURCE_TYPE.SECURITY_GROUP_EGRESS
  /\ RefProp(cfnResource.Properties, "GroupId") = logicalId
  /\ StrProp(cfnResource.Properties, "IpProtocol") = rule.protocol
  /\ NumProp(cfnResource.Properties, "FromPort") = rule.from
  /\ NumProp(cfnResource.Properties, "ToPort") = rule.to
  /\ \/ StrProp(cfnResource.Properties, "CidrIp") = rule.sourceValue
     \/ RefProp(cfnResource.Properties, "SourceSecurityGroupId") = rule.sourceValue

\* the Registry holds the egress rule of a group as an existing one
EgressRegistered(vpcItem, securityGroupItem, rule) ==
  Includes(aseaResources,
           [resourceType |-> "EC2_SECURITY_GROUP_EGRESS",
            resourceIdentifier |-> RuleIdentifier(vpcItem, securityGroupItem, "egress", rule)])

\* C23: a declared outbound rule of a matched security group is in the
\* Registry as an existing egress rule only when a legacy egress rule of that
\* group has its protocol, its from-port, its to-port and its source value
C23_EgressExistingOnlyIfSameLegacyRule ==
  InBody =>
    \A securityGroupItem \in Range(ListProp(vpcInScope, "securityGroups")) :
      securityGroupItem.name \in DOMAIN GroupIds(vpcInScope, vpcStackInfo) =>
        LET securityGroupsMap == GroupIds(vpcInScope, vpcStackInfo)
            logicalId == securityGroupsMap[securityGroupItem.name]
            rules == ProcessRuleItems(securityGroupItem.outboundRules, securityGroupsMap)
        IN \A i \in DOMAIN rules :
             EgressRegistered(vpcInScope, securityGroupItem, rules[i])
               => \E cfnResource \in AllRecords : SameEgressRule(cfnResource, logicalId, rules[i])

(***************************************************************************)
(* Rules of type ALL                                                       *)
(***************************************************************************)
\* the target ingress rules of type ALL of a declared group
AllRuleTargets(securityGroupItem, securityGroupsMap) ==
  LET rules == ProcessRuleItems(securityGroupItem.inboundRules, securityGroupsMap)
  IN {rules[i] : i \in {j \in DOMAIN rules : rules[j].type = "ALL"}}

\* a legacy ingress rule of the group logicalId with the protocol and the
\* port markers of a target rule, whatever its source
SameProtocolAndPorts(cfnResource, logicalId, rule) ==
  /\ cfnResource.resourceType = RESOURCE_TYPE.SECURITY_GROUP_INGRESS
  /\ RefProp(cfnResource.Properties, "GroupId") = logicalId
  /\ StrProp(cfnResource.Properties, "IpProtocol") = rule.protocol
  /\ NumProp(cfnResource.Properties, "FromPort") = rule.from
  /\ NumProp(cfnResource.Properties, "ToPort") = rule.to

\* C24 (as stated): for a target ingress rule of type ALL of a matched group
\* the comparison gives "existing" exactly when a legacy ingress rule of the
\* group has its protocol and its port markers, whatever the source of that
\* legacy rule
C24_AllRuleIgnoresSource ==
  InBody =>
    \A securityGroupItem \in Range(ListProp(vpcInScope, "securityGroups")) :
      securityGroupItem.name \in DOMAIN GroupIds(vpcInScope, vpcStackInfo) =>
        LET securityGroupsMap == GroupIds(vpcInScope, vpcStackInfo)
            logicalId == securityGroupsMap[securityGroupItem.name]
            ingressRules ==
              filterResourcesByRef(
                filterResourcesByType(vpcStackInfo.resources, RESOURCE_TYPE.SECURITY_GROUP_INGRESS),
                "GroupId", logicalId)
        IN \A rule \in AllRuleTargets(securityGroupItem, securityGroupsMap) :
             ExistingIngressRuleEntry(ingressRules, rule)
               <=> \E cfnResource \in AllRecords : SameProtocolAndPorts(cfnResource, logicalId, rule)

\* C24 (amended): for a target ingress rule of type ALL of a matched group
\* the comparison gives "existing" exactly when a legacy ingress rule of the
\* group has its protocol, its port markers (both absent) and its source,
\* and the rule is in the Registry as an existing ingress rule only then
C24_AllRuleComparesSource ==
  InBody =>
    \A securityGroupItem \in Range(ListProp(vpcInScope, "securityGroups")) :
      securityGroupItem.name \in DOMAIN GroupIds(vpcInScope, vpcStackInfo) =>
        LET securityGroupsMap == GroupIds(vpcInScope, vpcStackInfo)
            logicalId == securityGroupsMap[securityGroupItem.name]
            ingressRules ==
              filterResourcesByRef(
                filterResourcesByType(vpcStackInfo.resources, RESOURCE_TYPE.SECURITY_GROUP_INGRESS),
                "GroupId", logicalId)
        IN \A rule \in AllRuleTargets(securityGroupItem, securityGroupsMap) :
             LET Same == \E cfnResource \in AllRecords : SameIngressRule(cfnResource, logicalId, rule)
             IN /\ rule.from = UndefinedPort /\ rule.to = UndefinedPort
                /\ ExistingIngressRuleEntry(ingressRules, rule) <=> Same
                /\ IngressRegistered(vpcInScope, securityGroupItem, rule) => Same

\* C24 witness: createSecurityGroups has returned, a rule of type ALL is in
\* the Registry as existing, and another rule of type ALL is not although a
\* legacy rule of the group has its protocol and port markers
C24_AllRuleRegistered ==
  /\ AfterSecurityGroups
  /\ \E securityGroupItem \in Range(ListProp(vpcInScope, "securityGroups")) :
       /\ securityGroupItem.name \in DOMAIN GroupIds(vpcInScope, vpcStackInfo)
       /\ LET securityGroupsMap == GroupIds(vpcInScope, vpcStackInfo)
              logicalId == securityGroupsMap[securityGroupItem.name]
          IN \E registered, other \in AllRuleTargets(securityGroupItem, securityGroupsMap) :
               /\ IngressRegistered(vpcInScope, securityGroupItem, registered)
               /\ ~IngressRegistered(vpcInScope, securityGroupItem, other)
               /\ \E cfnResource \in AllRecords : SameProtocolAndPorts(cfnResource, logicalId, other)

(***************************************************************************)
(* Detach before delete                                                    *)
(***************************************************************************)
\* this step sends the DeletePolicy request
DeleteRequestSent ==
  /\ Len(policyRequests') = Len(policyRequests) + 1
  /\ policyRequests'[Len(policyRequests')].command = "DeletePolicy"

\* the detach request of a target has been answered, with success or with
\* "not attached"
DetachCompleted(targetId) ==
  \E i \in DOMAIN policyRequests :
    /\ policyRequests[i].command = "DetachPolicy"
    /\ policyRequests[i].target = targetId
    /\ policyRequests[i].outcome \in {"succeeded", "PolicyNotAttachedException"}

DeleteAfterDetaches ==
  DeleteRequestSent => \A targetId \in policyHandler.targetIds : DetachCompleted(targetId)

\* C25: on a Delete request in the home region for a policy that exists, the
\* step that sends the DeletePolicy request is taken only when the detach
\* request of every target the policy was attached to has been answered, with
\* success or with "policy not attached"
C25_DetachBeforeDelete == [][DeleteAfterDetaches]_vars

(***************************************************************************)
(* Create is idempotent on the policy name                                 *)
(***************************************************************************)
CreateOrUpdate == event.RequestType \in {"Create", "Update"}

InHomeRegion == event.ResourceProperties.region = event.ResourceProperties.homeRegion

\* Organizations has answered the CreatePolicy request with the outcome
CreateAnswered(outcome) ==
  \E i \in DOMAIN policyRequests :
    policyRequests[i].command = "CreatePolicy" /\ policyRequests[i].outcome = outcome

\* the policies of the name and the type of the event that Organizations holds
PoliciesNamed ==
  {i \in DOMAIN organization.policies :
     /\ organization.policies[i].Name = event.ResourceProperties.name
     /\ organization.policies[i].Type = event.ResourceProperties.type}

\* C26: on a Create or Update request in the home region the handler returns
\* SUCCESS with the identifier of the one policy of the name and the type:
\* the new policy when CreatePolicy succeeded, the existing policy when
\* CreatePolicy reported a duplicate (no second policy is created, the handler
\* does not fail); after any other failure of CreatePolicy the handler has
\* failed. In another region Create and Update return NoOperation and no
\* request is sent to S3 or to Organizations
C26_CreateIsIdempotent ==
  CreateOrUpdate =>
    /\ (InHomeRegion /\ policyHandler.pc = "returned") =>
         /\ policyHandler.result.Status = "SUCCESS"
         /\ TruthyStr(policyHandler.result.PhysicalResourceId)
         /\ Cardinality(PoliciesNamed) = 1
         /\ policyHandler.result.PhysicalResourceId =
              getPolicyId(organization.policies, event.ResourceProperties.name,
                          event.ResourceProperties.type)
         /\ policyHandler.result.PhysicalResourceId =
              IF CreateAnswered("DuplicatePolicyException") THEN ExistingPolicyId ELSE NewPolicyId
    /\ (InHomeRegion /\ CreateAnswered("DuplicatePolicyException")) =>
         /\ policyHandler.pc \in {"getPolicyId", "returned"}
         /\ \A i \in DOMAIN organization.policies : organization.policies[i].Id # NewPolicyId
    /\ (InHomeRegion /\ CreateAnswered("ServiceException")) =>
         /\ policyHandler.pc = "rejected"
         /\ policyHandler.result = NoResult
    /\ (~InHomeRegion /\ policyHandler.pc # "idle") =>
         /\ policyHandler.pc = "returned"
         /\ policyHandler.result = [PhysicalResourceId |-> "NoOperation", Status |-> "SUCCESS"]
         /\ policyRequests = <<>>

\* C26 witness: a Create in the home region for a name that exists has
\* returned the identifier of the existing policy
C26_ExistingPolicyReturned ==
  /\ event.RequestType = "Create"
  /\ InHomeRegion
  /\ CreateAnswered("DuplicatePolicyException")
  /\ policyHandler.pc = "returned"
  /\ policyHandler.result = [PhysicalResourceId |-> ExistingPolicyId, Status |-> "SUCCESS"]

(***************************************************************************)
(* Export dependencies                                                     *)
(***************************************************************************)
\* C27: every dependency createSsmParameters declares goes from a write to a
\* write of the same container at a strictly earlier position, so no write
\* depends on itself, no chain of dependencies comes back to its start and no
\* write depends on a write of another container
C27_DependenciesWellFounded ==
  \A k \in DOMAIN stringParameters :
    \A d \in stringParameters[k].dependsOn :
      /\ d < stringParameters[k].index
      /\ \E j \in DOMAIN stringParameters :
           /\ stringParameters[j].scope = stringParameters[k].scope
           /\ stringParameters[j].index = d

(***************************************************************************)
(* Inbound rules and outbound rules                                        *)
(***************************************************************************)
\* how often the Registry holds the ingress rule of a group as an existing one
RegisteredTimes(vpcItem, securityGroupItem, rule) ==
  Cardinality({k \in DOMAIN aseaResources :
                 aseaResources[k] =
                   [resourceType |-> "EC2_SECURITY_GROUP_INGRESS",
                    resourceIdentifier |->
                      RuleIdentifier(vpcItem, securityGroupItem, "ingress", rule)]})

\* the inbound rules of a declared group are classified as they are for one
\* outbound rule item: a rule that a legacy rule has the protocol, ports and
\* source of is registered once and not written, any other rule is written
\* to the rule list of the group and not registered
InboundClassifiedOnce(securityGroupItem) ==
  LET securityGroupsMap == GroupIds(vpcInScope, vpcStackInfo)
      logicalId == securityGroupsMap[securityGroupItem.name]
      rules == ProcessRuleItems(securityGroupItem.inboundRules, securityGroupsMap)
      Same(rule) == \E cfnResource \in AllRecords : SameIngressRule(cfnResource, logicalId, rule)
      written == ListProp(template[logicalId], "SecurityGroupIngress")
  IN \A i \in DOMAIN rules :
       IF Same(rules[i])
       THEN RegisteredTimes(vpcInScope, securityGroupItem, rules[i]) = 1
       ELSE /\ RegisteredTimes(vpcInScope, securityGroupItem, rules[i]) = 0
            /\ \E k \in DOMAIN written :
                 /\ written[k].ipProtocol = rules[i].protocol
                 /\ written[k].description = rules[i].description

\* C28: once createSecurityGroups has returned, the inbound rules of every
\* matched security group are classified as they are when the group declares
\* exactly one outbound rule item, whatever the number of outbound rule items
\* the group declares, none included
C28_InboundIndependentOfOutbound ==
  (InBody /\ AfterSecurityGroups) =>
    \A securityGroupItem \in Range(ListProp(vpcInScope, "securityGroups")) :
      securityGroupItem.name \in DOMAIN GroupIds(vpcInScope, vpcStackInfo) =>
        InboundClassifiedOnce(securityGroupItem)

(***************************************************************************)
(* Entries of new rules                                                    *)
(***************************************************************************)
\* an entry of a rule list has ports, has a source restriction
HasPorts(entry) == Has(entry, "fromPort") /\ Has(entry, "toPort")

HasSource(entry) ==
  \/ Has(entry, "cidrIp")
  \/ Has(entry, "cidrIpv6")
  \/ Has(entry, "sourceSecurityGroupId")
  \/ Has(entry, "sourcePrefixListId")

\* the target ingress rules of a declared group that are classified as new
NewIngressRules(securityGroupItem) ==
  LET securityGroupsMap == GroupIds(vpcInScope, vpcStackInfo)
      logicalId == securityGroupsMap[securityGroupItem.name]
      rules == ProcessRuleItems(securityGroupItem.inboundRules, securityGroupsMap)
  IN IF securityGroupItem.outboundRules = <<>> THEN <<>>
     ELSE SelectSeq(rules, LAMBDA rule :
                      ~\E cfnResource \in AllRecords : SameIngressRule(cfnResource, logicalId, rule))

\* C29: once createSecurityGroups has returned, the rule list written to a
\* matched security group holds exactly one entry for every target ingress
\* rule classified as new, in order, with the protocol of the rule, its ports
\* and its source restriction; no entry of the list has ports and no source,
\* or a source and no ports
C29_OneEntryPerNewRule ==
  (InBody /\ AfterSecurityGroups) =>
    \A securityGroupItem \in Range(ListProp(vpcInScope, "securityGroups")) :
      (/\ securityGroupItem.name \in DOMAIN GroupIds(vpcInScope, vpcStackInfo)
       /\ NewIngressRules(securityGroupItem) # <<>>) =>
        LET logicalId == GroupIds(vpcInScope, vpcStackInfo)[securityGroupItem.name]
            new == NewIngressRules(securityGroupItem)
            written == ListProp(template[logicalId], "SecurityGroupIngress")
        IN /\ Len(written) = Len(new)
           /\ \A k \in DOMAIN written :
                /\ HasPorts(written[k]) <=> HasSource(written[k])
                /\ k \in DOMAIN new =>
                     /\ written[k].ipProtocol = new[k].protocol
                     /\ HasSource(written[k])
                     /\ new[k].type # "ALL" =>
                          /\ HasPorts(written[k])
                          /\ written[k].fromPort = new[k].from
                          /\ written[k].toPort = new[k].to

(***************************************************************************)
(* Security Lake: success and registration                                 *)
(***************************************************************************)
\* a request of the command has been answered with the outcome
Answered(command, outcome) ==
  \E k \in DOMAIN securityLakeRequests :
    /\ securityLakeRequests[k].command = command
    /\ securityLakeRequests[k].outcome = outcome

\* C30: without dry run, registerDelegatedAdmin has returned the status of a
\* registration or of a change only if the register request for the configured
\* account has succeeded, and once a register request or a deregister request
\* has failed it has not returned a status: it has rethrown the failure
C30_NoSuccessWithoutRegistration ==
  (lakeProps.operation = "set-organization-admin" /\ ~DryRun) =>
    /\ (/\ registerDelegatedAdmin.settled = "returned"
        /\ registerHandler.action \in {"SET_DELEGATED_ADMIN", "UPDATE_DELEGATED_ADMIN"}) =>
         \E k \in DOMAIN securityLakeRequests :
           /\ securityLakeRequests[k].command = "RegisterDataLakeDelegatedAdministrator"
           /\ securityLakeRequests[k].accountId = lakeProps.configuration.delegatedAdminAccount
           /\ securityLakeRequests[k].outcome = "succeeded"
    /\ (\/ Answered("RegisterDataLakeDelegatedAdministrator", "failed")
        \/ Answered("DeregisterDataLakeDelegatedAdministrator", "failed")) =>
         /\ registerDelegatedAdmin.settled = "rejected"
         /\ registerDelegatedAdmin.error # NoError

====
